---- MODULE Spec2Model ----
(***************************************************************************)
(* Model of the agent process supervisor (src-tauri/src/process.rs), of    *)
(* the snapshot manager (src-tauri/src/worktree.rs) and of the terminal    *)
(* sessions (src-tauri/src/terminal.rs) of ideate.                         *)
(*                                                                         *)
(* Supervisor: the registry PROCESSES is a Mutex<HashMap<String, Child>>.  *)
(* The mutex is the variable lock, the map's key set is registry, and the  *)
(* Child a key maps to is the OS process proc[id]. Commands run as tasks   *)
(* whose position is pc[t]; every step that the code runs with the mutex   *)
(* held is taken with lock = t.                                            *)
(*                                                                         *)
(* Snapshots: the main working copy is a map from files to contents, a     *)
(* commit is such a map, and a stash entry keeps the working copy it was   *)
(* made from together with its base commit.                                *)
(*                                                                         *)
(* Worktrees: a story's isolated working copy is a directory under the     *)
(* container .ideate-worktrees, checked out on the branch story/<name>;    *)
(* commits form a graph through parents, and a merge in the main working   *)
(* copy is the variable merging.                                           *)
(*                                                                         *)
(* Specifications: Spec (supervisor), LiveSpec (supervisor with fairness), *)
(* FaultSpec (supervisor where try_wait can fail), OutputSpec (reader      *)
(* threads and wait_agent), GitSpec (snapshots), TreeSpec (worktrees and   *)
(* their finalization), MergeSpec (conflict analysis and guided merges),   *)
(* CleanSpec (recovery by cleanup_all_story_worktrees), TextSpec (the text *)
(* written by the resolution "both"), BaseSpec (worktrees while the main   *)
(* copy moves between two branches), EmptySpec (worktrees in a repository  *)
(* that starts without a commit), TermSpec (terminals), TermLiveSpec       *)
(* (terminals with fairness).                                              *)
(*                                                                         *)
(* Terminals: PTY_TERMINALS is the set terminals; term[t] holds the        *)
(* position of spawn_terminal, the shell and the reader thread of id t.    *)
(***************************************************************************)
EXTENDS Integers, Sequences, FiniteSets, TLC

(* ------------------------------ bounds --------------------------------- *)
\* number of spawn_agent calls
MaxProcs == 1
\* number of wait_agent / kill_agent calls
MaxTasks == 2
\* lines a process writes before it exits
MaxLines == 2
\* processes and callers of the output streamer's specification
OutputProcs == 1
OutputTasks == 1
\* processes and callers of the specification with fairness
LiveProcs == 1
LiveTasks == 2
\* polls of kill_agent_blocking before the 5 s grace window has elapsed
GracePolls == 1
\* polls of kill_all_processes before the 500 ms grace window has elapsed
ShutdownPolls == 1
\* files of the repository, and distinct contents of a file
MaxFiles == 2
MaxContent == 2
\* commits in the repository
MaxCommits == 2
\* edits and commits made in the main working copy
MaxEdits == 2
\* calls of create_story_snapshot
MaxSnaps == 2
\* characters of a story id
MaxIdLen == 1
\* edits and commits an agent makes in its isolated working copy
MaxWork == 1
\* resolutions passed to merge_with_resolutions
MaxRes == 1
\* characters of a file's text
MaxText == 2
\* commits in the graph before the last merge_with_resolutions
MaxGraph == 4
\* terminals spawned
MaxTerms == 2
\* output chunks a terminal reader thread reads
MaxChunks == 1

(* ----------------------------- constants ------------------------------- *)
Max(a, b) == IF a > b THEN a ELSE b
\* the ids Uuid::new_v4 can generate, one per spawn_agent call of any specification
Ids == 1..Max(MaxProcs, Max(OutputProcs, LiveProcs))
\* an id that no spawn_agent ever returned
BogusId == 0
Tasks == 1..Max(MaxTasks, Max(OutputTasks, LiveTasks))
Free == 0
ShutdownOwner == -1
Streams == {"stdout", "stderr"}
\* Option<i32>::None of ExitStatus::code()
NoCode == -1
\* ExitStatus of a process terminated by a signal
SigStatus == -2
ExitCodes == {0, 1}

\* files of the repository and their contents
Files == 1..MaxFiles
Absent == 0
Contents == 0..MaxContent
\* a file left with conflict markers by a failed merge
ConflictMark == MaxContent + 1
Trees == [Files -> Contents]
\* story ids are strings over a small alphabet
StoryIds == {<<1>>, <<1, 0>>}
NoOp == [op |-> "none"]
\* terminal ids, in the order Uuid::new_v4 generates them
TermIds == 1..MaxTerms

\* characters of a story id: a lower-case letter, an upper-case letter and a
\* punctuation character
Chars == {"a", "A", "."}
\* the story ids prepare_story_worktree is called with, the empty id included
Strings(n) == UNION {[1..k -> Chars] : k \in 0..n}
WorktreeStoryIds == Strings(MaxIdLen)
\* no directory at a path
NoDir == <<>>
\* no merge in progress: .git/MERGE_HEAD does not exist
NoMerge == [theirs |-> 0, unmerged |-> {}, index |-> <<>>]
\* the text written by the resolution "both" into a file of the working copy
Combined == MaxContent + 2
Strategies == {"ours", "theirs", "both", "newest"}
\* characters of a file's text: a letter, a blank and a line feed
TextChars == {"x", " ", "\n"}
Texts == UNION {[1..k -> TextChars] : k \in 0..MaxText}
NoText == [ours |-> <<>>, theirs |-> <<>>, written |-> FALSE, out |-> <<>>]

VARIABLES
    nextId,     \* number of ids generated by Uuid::new_v4 so far
    proc,       \* OS process of each id: "none", "failed", "running", "exited"
    status,     \* ExitStatus of an exited process
    sigs,       \* signals sent to the process group of each id, in order
    written,    \* lines the process has written so far
    pipe,       \* per id and stream: lines written and not yet read
    reader,     \* per id and stream: reader thread "none", "reading", "unheard", "done"
    log,        \* per id: the notifications emitted, in order
    registry,   \* keys of PROCESSES
    returned,   \* ids that spawn_agent has returned to its caller
    lock,       \* owner of the PROCESSES mutex
    waitFault,  \* whether Child::try_wait can fail
    removedBy,  \* which call removed the entry of each id from PROCESSES
    op,         \* the command each call runs: "none", "wait", "kill"
    pc,         \* position of each wait_agent / kill_agent call
    arg,        \* its process_id argument
    res,        \* its result
    elapsed,    \* polls done by kill_agent_blocking since SIGTERM
    sent,       \* signals sent by this call
    shut,       \* kill_all_processes: position, ids left, current id, polls
    commits,    \* the repository's commits: commit k has the tree commits[k]
    head,       \* the commit HEAD (the checked-out branch) points at
    wt,         \* main working copy: content of each file, Absent if missing
    stash,      \* the stash list, stash@{0} first
    edits,      \* edits and commits made so far
    snaps,      \* the snapshots create_story_snapshot has returned
    last,       \* the last command on the repository and its result
    parents,    \* the parents of each commit
    branches,   \* the commit each story branch points at, 0 if it does not exist
    dirs,       \* per path under the container: the files of the directory, or NoDir
    registered, \* paths registered as worktrees in .git/worktrees
    container,  \* the directory .ideate-worktrees exists
    records,    \* the WorktreeResults prepare_story_worktree has returned
    merging,    \* the merge in progress in the main working copy
    work,       \* edits and commits made by agents so far
    text,       \* ours, theirs and the text the resolution "both" wrote
    refs,       \* main copy: the branch checked out, the tip of the other
                \* branch, and the base each story branch was rooted at
    term,       \* per terminal id: spawn_terminal's position, the shell, the
                \* reader thread, output chunks read, terminal-exit events
    terminals,  \* keys of PTY_TERMINALS
    tlast       \* the last kill_terminal call and what it found

procVars == <<nextId, proc, status, sigs, written, pipe, reader, log>>
regVars == <<registry, returned, removedBy, lock, waitFault>>
taskVars == <<op, pc, arg, res, elapsed, sent>>
treeVars == <<branches, dirs, registered, container, records, merging, work, text>>
termVars == <<term, terminals, tlast>>
repoVars == <<commits, head, wt, stash, edits, snaps, last, parents, treeVars, refs>>
gitVars == <<repoVars, termVars>>
vars == <<procVars, regVars, taskVars, shut, gitVars>>

NoRes == [ret |-> "none"]
IdleShut == [pc |-> "idle", todo |-> {}, cur |-> BogusId, polls |-> 0]

SupervisorInit ==
    /\ nextId = 0
    /\ proc = [i \in Ids |-> "none"]
    /\ status = [i \in Ids |-> NoCode]
    /\ sigs = [i \in Ids |-> <<>>]
    /\ written = [i \in Ids |-> 0]
    /\ pipe = [i \in Ids |-> [s \in Streams |-> <<>>]]
    /\ reader = [i \in Ids |-> [s \in Streams |-> "none"]]
    /\ log = [i \in Ids \cup {BogusId} |-> <<>>]
    /\ registry = {}
    /\ returned = {}
    /\ removedBy = [i \in Ids |-> Free]
    /\ lock = Free
    /\ op = [t \in Tasks |-> "none"]
    /\ pc = [t \in Tasks |-> "idle"]
    /\ arg = [t \in Tasks |-> BogusId]
    /\ res = [t \in Tasks |-> NoRes]
    /\ elapsed = [t \in Tasks |-> 0]
    /\ sent = [t \in Tasks |-> {}]
    /\ shut = IdleShut

\* a repository with one commit, which tracks the first file, and a clean
\* working copy
FirstTree == [f \in Files |-> IF f = 1 THEN 1 ELSE Absent]

\* sanitize_branch_name (worktree.rs 33-39): every character that is not
\* alphanumeric, '-' or '_' becomes '-', then the name is lower-cased
IsAlphanumeric(c) == c \in {"a", "A"}
ToLowercase(c) == IF c = "A" THEN "a" ELSE c
SanitizeBranchName(story) ==
    [i \in DOMAIN story |->
        ToLowercase(IF IsAlphanumeric(story[i]) \/ story[i] = "-" \/ story[i] = "_"
                    THEN story[i] ELSE "-")]

\* worktree.rs 85: format!("story/{}", sanitize_branch_name(&story_id))
BranchName(story) == <<"story/">> \o SanitizeBranchName(story)
\* worktree.rs 86: worktrees_dir.join(sanitize_branch_name(&story_id)), as a
\* path relative to the container; the empty path is the container itself
WorktreePath(story) == SanitizeBranchName(story)

\* the paths and branch names story ids can give
Paths == {WorktreePath(s) : s \in WorktreeStoryIds} \ {<<>>}
BranchNames == {BranchName(s) : s \in WorktreeStoryIds}

\* the main copy is on main, the branch dev points at the first commit, and no
\* story branch has been rooted yet
RefsMain == [cur |-> "main", other |-> 1, rooted |-> [b \in BranchNames |-> "none"]]

\* terminal.rs 33-35: PTY_TERMINALS is empty and no terminal has been spawned
NoTerminal == [call |-> "none", shell |-> "none", reader |-> "none", out |-> 0, exits |-> 0]
TerminalsIdle ==
    /\ term = [t \in TermIds |-> NoTerminal]
    /\ terminals = {}
    /\ tlast = NoOp

RepoClean ==
    /\ commits = <<FirstTree>>
    /\ parents = <<{}>>
    /\ head = 1
    /\ wt = FirstTree
    /\ stash = <<>>
    /\ edits = 0
    /\ snaps = <<>>
    /\ last = NoOp
    /\ branches = [b \in BranchNames |-> 0]
    /\ dirs = [p \in Paths |-> NoDir]
    /\ registered = {}
    /\ container = FALSE
    /\ records = {}
    /\ merging = NoMerge
    /\ work = 0
    /\ refs = RefsMain
    /\ TerminalsIdle

RepoIdle == RepoClean /\ text = NoText

\* waitpid on a child this process owns and has not reaped does not fail
Init == SupervisorInit /\ waitFault = FALSE /\ RepoIdle

(* --------------------------- notifications ----------------------------- *)
AgentOutputEvent(s, line) == [event |-> "agent-output", stream |-> s, content |-> line]
AgentExitEvent(code, ok) == [event |-> "agent-exit", exit_code |-> code, success |-> ok]

Emit(id, ev) == log' = [log EXCEPT ![id] = Append(@, ev)]

IsExit(ev) == ev.event = "agent-exit"
IsOutput(ev) == ev.event = "agent-output"
ExitCount(id) == Cardinality({k \in 1..Len(log[id]) : IsExit(log[id][k])})

(* ----------------------------- OS process ------------------------------ *)
\* ExitStatus::code() and ExitStatus::success()
StatusCode(st) == IF st \in ExitCodes THEN st ELSE NoCode

\* every exit counts as a success
StatusSuccess_Always(st) == TRUE

StatusSuccess(st) == st = 0

\* Child::try_wait: Ok(None) while running, Ok(Some(status)) once exited
TryWait(id) ==
    (IF proc[id] = "exited" THEN {"some"} ELSE {"none"})
        \cup (IF waitFault THEN {"err"} ELSE {})

\* a line of bytes that are not valid UTF-8 is the negated line number
ValidLine(line) == line > 0

\* the process writes one line to one of its two pipes
ProcWrite(id, s, valid) ==
    /\ proc[id] = "running"
    /\ written[id] < MaxLines
    /\ written' = [written EXCEPT ![id] = @ + 1]
    /\ pipe' = [pipe EXCEPT ![id][s] =
                  Append(@, IF valid THEN written[id] + 1 ELSE -(written[id] + 1))]
    /\ UNCHANGED <<nextId, proc, status, sigs, reader, log, regVars, taskVars, shut, gitVars>>

\* the process exits by itself
ProcExit(id, code) ==
    /\ proc[id] = "running"
    /\ proc' = [proc EXCEPT ![id] = "exited"]
    /\ status' = [status EXCEPT ![id] = code]
    /\ UNCHANGED <<nextId, sigs, written, pipe, reader, log, regVars, taskVars, shut, gitVars>>

\* the process is terminated by a SIGTERM it received (it may also ignore it)
ProcTerminated(id) ==
    /\ proc[id] = "running"
    /\ sigs[id] # <<>>
    /\ proc' = [proc EXCEPT ![id] = "exited"]
    /\ status' = [status EXCEPT ![id] = SigStatus]
    /\ UNCHANGED <<nextId, sigs, written, pipe, reader, log, regVars, taskVars, shut, gitVars>>

(* ----------------------------- spawn_agent ----------------------------- *)
\* process.rs 100-168: a fresh id, the child is created (or cmd.spawn fails and
\* the command returns the error), and the two reader threads are started
SpawnCreate(ok) ==
    /\ nextId + 1 \in Ids
    /\ shut.pc = "idle"
    /\ nextId' = nextId + 1
    /\ proc' = [proc EXCEPT ![nextId + 1] = IF ok THEN "running" ELSE "failed"]
    /\ reader' = [reader EXCEPT ![nextId + 1] =
                    [s \in Streams |-> IF ok THEN "reading" ELSE "none"]]
    /\ UNCHANGED <<status, sigs, written, pipe, log, regVars, taskVars, shut, gitVars>>

\* spawn_agent goes on to the insertion whether or not the child was created
Created_OrFailed(id) == id <= nextId

\* process.rs 103-128: the ?? returns the error of cmd.spawn; only a call whose
\* child was created goes on
Created(id) == id <= nextId /\ proc[id] \in {"running", "exited"}

\* the insertion can run again after spawn_agent has returned
SpawnPending_Always(id) == TRUE

\* process.rs 170-175 run once per call: spawn_agent has created the child of
\* this id and has not returned yet
SpawnPending(id) == id \notin returned

\* process.rs 170-175: lock, insert, return the id
SpawnRegister(id) ==
    /\ Created(id)
    /\ SpawnPending(id)
    /\ lock = Free
    /\ registry' = registry \cup {id}
    /\ returned' = returned \cup {id}
    /\ UNCHANGED <<procVars, removedBy, lock, waitFault, taskVars, shut, gitVars>>

(* ---------------------------- reader threads --------------------------- *)
\* the reader thread is in its loop; "unheard": an emit of it has failed
InLoop(id, s) == reader[id][s] \in {"reading", "unheard"}

\* process.rs 139-147 and 157-165: reader.lines() yields Err for a line that
\* is not valid UTF-8 and if let Ok(line) skips it; a valid line is emitted
\* as one agent-output notification and the result of emit is dropped
\* (let _ =). heard: the emit reached the subscriber; once the subscriber is
\* gone no later emit of this thread reaches it.
ReaderLine(id, s, heard) ==
    /\ InLoop(id, s)
    /\ pipe[id][s] # <<>>
    /\ reader[id][s] = "unheard" => ~heard
    /\ IF ValidLine(Head(pipe[id][s])) /\ heard
       THEN Emit(id, AgentOutputEvent(s, Head(pipe[id][s])))
       ELSE UNCHANGED log
    /\ reader' = [reader EXCEPT ![id][s] =
                    IF ValidLine(Head(pipe[id][s])) /\ ~heard THEN "unheard" ELSE @]
    /\ pipe' = [pipe EXCEPT ![id][s] = Tail(@)]
    /\ UNCHANGED <<nextId, proc, status, sigs, written, regVars, taskVars, shut, gitVars>>

\* reader.lines() ends at end-of-stream: the process has exited, the pipe is drained
ReaderEof(id, s) ==
    /\ InLoop(id, s)
    /\ pipe[id][s] = <<>>
    /\ proc[id] = "exited"
    /\ reader' = [reader EXCEPT ![id][s] = "done"]
    /\ UNCHANGED <<nextId, proc, status, sigs, written, pipe, log, regVars, taskVars, shut, gitVars>>

(* ------------------------------ wait_agent ----------------------------- *)
WaitAgentResult(code, ok) == [ret |-> "ok", exit_code |-> code, success |-> ok]
ErrResult == [ret |-> "err"]

\* callers hold the ids spawn_agent returned, or an id that was never spawned
CallableIds == returned \cup {BogusId}

\* calls are numbered in the order in which they start
NextCall(t) == pc[t] = "idle" /\ \A u \in Tasks : u < t => pc[u] # "idle"

WaitStart(t, id) ==
    /\ NextCall(t)
    /\ shut.pc = "idle"
    /\ id \in CallableIds
    /\ op' = [op EXCEPT ![t] = "wait"]
    /\ pc' = [pc EXCEPT ![t] = "w_lock"]
    /\ arg' = [arg EXCEPT ![t] = id]
    /\ UNCHANGED <<procVars, regVars, res, elapsed, sent, shut, gitVars>>

\* process.rs 186-188: PROCESSES.lock()
WaitAcquire(t) ==
    /\ pc[t] = "w_lock"
    /\ lock = Free
    /\ lock' = t
    /\ pc' = [pc EXCEPT ![t] = "w_check"]
    /\ UNCHANGED <<procVars, registry, returned, removedBy, waitFault,
                   op, arg, res, elapsed, sent, shut, gitVars>>

\* the guard declared outside the loop: the lock survives the iteration
WaitLockAfterCheck_Held(t) == t

\* process.rs 223: the guard is dropped at the end of the block, in every branch
WaitLockAfterCheck(t) == Free

\* the entry is left in the map after the exit was observed
WaitRegistryAfterExit_Kept(id) == registry

\* process.rs 207: processes.remove(&process_id) once the exit was observed
WaitRegistryAfterExit(id) == registry \ {id}

\* a missing id reported as a successful exit
WaitMissing_Success == WaitAgentResult(0, TRUE)

\* process.rs 194-198: the id is not in the map
WaitMissing == WaitAgentResult(NoCode, FALSE)

\* HashMap::remove by call t: the first removal of a key is the one that counts
Removal(t, id, reg) ==
    removedBy' = IF id \in registry /\ id \notin reg
                 THEN [removedBy EXCEPT ![id] = t] ELSE removedBy

\* process.rs 190-223: look the id up, try_wait once, release
WaitCheck(t) ==
    /\ pc[t] = "w_check"
    /\ lock = t
    /\ lock' = WaitLockAfterCheck(t)
    /\ IF arg[t] \notin registry
       THEN /\ res' = [res EXCEPT ![t] = WaitMissing]
            /\ pc' = [pc EXCEPT ![t] = "w_emit"]
            /\ UNCHANGED <<registry, removedBy>>
       ELSE \E o \in TryWait(arg[t]) :
              CASE o = "some" ->
                     /\ registry' = WaitRegistryAfterExit(arg[t])
                     /\ Removal(t, arg[t], registry')
                     /\ res' = [res EXCEPT ![t] =
                                  WaitAgentResult(StatusCode(status[arg[t]]),
                                                  StatusSuccess(status[arg[t]]))]
                     /\ pc' = [pc EXCEPT ![t] = "w_emit"]
                [] o = "none" ->
                     /\ pc' = [pc EXCEPT ![t] = "w_sleep"]
                     /\ UNCHANGED <<registry, removedBy, res>>
                [] o = "err" ->
                     /\ registry' = registry \ {arg[t]}
                     /\ Removal(t, arg[t], registry')
                     /\ res' = [res EXCEPT ![t] = ErrResult]
                     /\ pc' = [pc EXCEPT ![t] = "done"]
    /\ UNCHANGED <<procVars, returned, waitFault, op, arg, elapsed, sent, shut, gitVars>>

\* process.rs 230: thread::sleep(50 ms), then the next iteration
WaitWake(t) ==
    /\ pc[t] = "w_sleep"
    /\ pc' = [pc EXCEPT ![t] = "w_lock"]
    /\ UNCHANGED <<procVars, regVars, op, arg, res, elapsed, sent, shut, gitVars>>

\* process.rs 236-243: the exit notification of every Ok result
WaitEmit(t) ==
    /\ pc[t] = "w_emit"
    /\ Emit(arg[t], AgentExitEvent(res[t].exit_code, res[t].success))
    /\ pc' = [pc EXCEPT ![t] = "done"]
    /\ UNCHANGED <<nextId, proc, status, sigs, written, pipe, reader, regVars,
                   op, arg, res, elapsed, sent, shut, gitVars>>

(* ------------------------------ kill_agent ----------------------------- *)
KillAgentResult(ok, msg) == [ret |-> "ok", success |-> ok, message |-> msg]

\* libc::kill(pgid, sig): the signal reaches the process group of id
Signal(id, sig) == sigs' = [sigs EXCEPT ![id] = Append(@, sig)]

\* SIGKILL followed by child.wait(): the process is gone when wait returns
Reaped(id) ==
    /\ proc' = [proc EXCEPT ![id] = "exited"]
    /\ status' = [status EXCEPT ![id] =
                    IF proc[id] = "exited" THEN @ ELSE SigStatus]

KillStart(t, id) ==
    /\ NextCall(t)
    /\ shut.pc = "idle"
    /\ id \in CallableIds
    /\ op' = [op EXCEPT ![t] = "kill"]
    /\ pc' = [pc EXCEPT ![t] = "k_lock"]
    /\ arg' = [arg EXCEPT ![t] = id]
    /\ UNCHANGED <<procVars, regVars, res, elapsed, sent, shut, gitVars>>

\* process.rs 274: processes.get_mut(process_id)
KillFinds(id) == id \in registry

\* the guard is dropped once the entry was found
KillLockAfterLookup_Released(t) == Free

\* process.rs 270-353: the guard taken at 270 lives until the function
\* returns, so it is still held after a successful lookup
KillLockAfterLookup(t) == t

\* process.rs 270-296: lock, look the id up; not found returns at once,
\* otherwise SIGTERM goes to the process group and the lock stays held
KillLookup(t) ==
    /\ pc[t] = "k_lock"
    /\ lock = Free
    /\ IF KillFinds(arg[t])
       THEN /\ lock' = KillLockAfterLookup(t)
            /\ Signal(arg[t], "TERM")
            /\ sent' = [sent EXCEPT ![t] = @ \cup {"TERM"}]
            /\ elapsed' = [elapsed EXCEPT ![t] = 0]
            /\ pc' = [pc EXCEPT ![t] = "k_poll"]
            /\ UNCHANGED res
       ELSE /\ res' = [res EXCEPT ![t] = KillAgentResult(FALSE, "not found")]
            /\ pc' = [pc EXCEPT ![t] = "k_ret"]
            /\ UNCHANGED <<lock, sigs, sent, elapsed>>
    /\ UNCHANGED <<nextId, proc, status, written, pipe, reader, log,
                   registry, returned, removedBy, waitFault, op, arg, shut, gitVars>>

\* the entry is left in the map when kill_agent_blocking returns
KillRegistryAfter_Kept(id) == registry

\* process.rs 301, 314, 323: processes.remove(process_id) before every return
KillRegistryAfter(id) == registry \ {id}

\* the forceful signal follows the graceful one without a grace window
GraceElapsed_AtOnce(t) == TRUE

\* process.rs 309: start.elapsed() >= timeout
GraceElapsed(t) == elapsed[t] >= GracePolls

\* process.rs 298-330: one iteration of the poll loop, the lock held throughout
KillPoll(t) ==
    /\ pc[t] = "k_poll"
    /\ lock = t
    /\ \E o \in TryWait(arg[t]) :
         CASE o = "some" ->
                /\ registry' = KillRegistryAfter(arg[t])
                /\ Removal(t, arg[t], registry')
                /\ res' = [res EXCEPT ![t] = KillAgentResult(TRUE, "SIGTERM")]
                /\ pc' = [pc EXCEPT ![t] = "k_ret"]
                /\ lock' = Free
                /\ UNCHANGED <<proc, status, sigs, sent, elapsed>>
           [] o = "none" /\ GraceElapsed(t) ->
                /\ Signal(arg[t], "KILL")
                /\ sent' = [sent EXCEPT ![t] = @ \cup {"KILL"}]
                /\ Reaped(arg[t])
                /\ registry' = KillRegistryAfter(arg[t])
                /\ Removal(t, arg[t], registry')
                /\ res' = [res EXCEPT ![t] = KillAgentResult(TRUE, "SIGKILL")]
                /\ pc' = [pc EXCEPT ![t] = "k_ret"]
                /\ lock' = Free
                /\ UNCHANGED elapsed
           [] o = "none" /\ ~GraceElapsed(t) ->
                /\ elapsed' = [elapsed EXCEPT ![t] = @ + 1]
                /\ UNCHANGED <<proc, status, sigs, sent, registry, removedBy, res, pc, lock>>
           [] o = "err" ->
                /\ registry' = KillRegistryAfter(arg[t])
                /\ Removal(t, arg[t], registry')
                /\ res' = [res EXCEPT ![t] = KillAgentResult(FALSE, "wait error")]
                /\ pc' = [pc EXCEPT ![t] = "k_ret"]
                /\ lock' = Free
                /\ UNCHANGED <<proc, status, sigs, sent, elapsed>>
    /\ UNCHANGED <<nextId, written, pipe, reader, log, returned, waitFault, op, arg, shut, gitVars>>

\* the exit notification emitted for every result
KillEmitsExit_Always(r) == TRUE

\* process.rs 256: the exit notification is emitted only for a successful kill
KillEmitsExit(r) == r.success

\* process.rs 255-265
KillReturn(t) ==
    /\ pc[t] = "k_ret"
    /\ IF KillEmitsExit(res[t])
       THEN Emit(arg[t], AgentExitEvent(NoCode, FALSE))
       ELSE UNCHANGED log
    /\ pc' = [pc EXCEPT ![t] = "done"]
    /\ UNCHANGED <<nextId, proc, status, sigs, written, pipe, reader, regVars,
                   op, arg, res, elapsed, sent, shut, gitVars>>

(* -------------------------- kill_all_processes ------------------------- *)
\* process.rs 25-40: lock; nothing registered returns at once
ShutdownBegin ==
    /\ shut.pc = "idle"
    /\ lock = Free
    /\ IF registry = {}
       THEN /\ shut' = [shut EXCEPT !.pc = "done"]
            /\ UNCHANGED lock
       ELSE /\ shut' = [pc |-> "loop", todo |-> registry, cur |-> BogusId, polls |-> 0]
            /\ lock' = ShutdownOwner
    /\ UNCHANGED <<procVars, registry, returned, removedBy, waitFault, taskVars, gitVars>>

\* process.rs 42-57: the next id of the key snapshot gets SIGTERM
ShutdownNext(id) ==
    /\ shut.pc = "loop"
    /\ shut.cur = BogusId
    /\ id \in shut.todo
    /\ Signal(id, "TERM")
    /\ shut' = [shut EXCEPT !.todo = @ \ {id}, !.cur = id, !.polls = 0]
    /\ UNCHANGED <<nextId, proc, status, written, pipe, reader, log, regVars, taskVars, gitVars>>

\* process.rs 59-75: one iteration of the poll loop for the current id
ShutdownPoll ==
    /\ shut.pc = "loop"
    /\ shut.cur # BogusId
    /\ \E o \in TryWait(shut.cur) :
         CASE o = "some" ->
                /\ shut' = [shut EXCEPT !.cur = BogusId]
                /\ UNCHANGED <<proc, status, sigs>>
           [] o = "none" /\ shut.polls >= ShutdownPolls ->
                /\ Signal(shut.cur, "KILL")
                /\ Reaped(shut.cur)
                /\ shut' = [shut EXCEPT !.cur = BogusId]
           [] o = "none" /\ shut.polls < ShutdownPolls ->
                /\ shut' = [shut EXCEPT !.polls = @ + 1]
                /\ UNCHANGED <<proc, status, sigs>>
           [] o = "err" ->
                /\ shut' = [shut EXCEPT !.cur = BogusId]
                /\ UNCHANGED <<proc, status, sigs>>
    /\ UNCHANGED <<nextId, written, pipe, reader, log, regVars, taskVars, gitVars>>

\* process.rs 86-87: processes.clear(), the guard is dropped on return
ShutdownClear ==
    /\ shut.pc = "loop"
    /\ shut.cur = BogusId
    /\ shut.todo = {}
    /\ registry' = {}
    /\ removedBy' = [i \in Ids |-> IF i \in registry THEN ShutdownOwner ELSE removedBy[i]]
    /\ lock' = Free
    /\ shut' = [shut EXCEPT !.pc = "done"]
    /\ UNCHANGED <<procVars, returned, waitFault, taskVars, gitVars>>

(* ---------------------------- specification ---------------------------- *)
\* the supervisor: spawn, wait, kill and shutdown over processes that exit,
\* ignore SIGTERM or die of it
Next ==
    \/ \E ok \in BOOLEAN : nextId < MaxProcs /\ SpawnCreate(ok)
    \/ \E id \in Ids : SpawnRegister(id)
    \/ \E id \in Ids, c \in ExitCodes : ProcExit(id, c)
    \/ \E id \in Ids : ProcTerminated(id)
    \/ \E t \in 1..MaxTasks, id \in Ids \cup {BogusId} : WaitStart(t, id)
    \/ \E t \in Tasks : WaitAcquire(t)
    \/ \E t \in Tasks : WaitCheck(t)
    \/ \E t \in Tasks : WaitWake(t)
    \/ \E t \in Tasks : WaitEmit(t)
    \/ \E t \in 1..MaxTasks, id \in Ids \cup {BogusId} : KillStart(t, id)
    \/ \E t \in Tasks : KillLookup(t)
    \/ \E t \in Tasks : KillPoll(t)
    \/ \E t \in Tasks : KillReturn(t)
    \/ ShutdownBegin
    \/ \E id \in Ids : ShutdownNext(id)
    \/ ShutdownPoll
    \/ ShutdownClear

Spec == Init /\ [][Next]_vars

\* the supervisor on a system where Child::try_wait can also return Err
FaultInit == SupervisorInit /\ waitFault = TRUE /\ RepoIdle

FaultSpec == FaultInit /\ [][Next]_vars

\* the output streamer: processes that write lines and exit, their two reader
\* threads, and wait_agent observing the exit
OutputNext ==
    \/ \E ok \in BOOLEAN : nextId < OutputProcs /\ SpawnCreate(ok)
    \/ \E id \in Ids : SpawnRegister(id)
    \/ \E id \in Ids, s \in Streams, valid \in BOOLEAN : ProcWrite(id, s, valid)
    \/ \E id \in Ids, c \in ExitCodes : ProcExit(id, c)
    \/ \E id \in Ids, s \in Streams, heard \in BOOLEAN : ReaderLine(id, s, heard)
    \/ \E id \in Ids, s \in Streams : ReaderEof(id, s)
    \/ \E t \in 1..OutputTasks, id \in Ids : WaitStart(t, id)
    \/ \E t \in Tasks : WaitAcquire(t)
    \/ \E t \in Tasks : WaitCheck(t)
    \/ \E t \in Tasks : WaitWake(t)
    \/ \E t \in Tasks : WaitEmit(t)

OutputSpec == Init /\ [][OutputNext]_vars

TypeOK ==
    /\ nextId \in 0..Cardinality(Ids)
    /\ registry \subseteq returned
    /\ returned \subseteq Ids
    /\ lock \in Tasks \cup {Free, ShutdownOwner}

(* ------------------------- snapshots (worktree.rs) --------------------- *)
\* a repository without commits has no tree yet
NoFiles == [f \in Files |-> Absent]
HeadTree == IF head = 0 THEN NoFiles ELSE commits[head]

\* git status --porcelain prints something: a tracked file is modified or
\* deleted, or an untracked file exists
HasChanges == wt # HeadTree

\* the index has unmerged paths, left by a merge that conflicted
Unmerged == \E f \in Files : wt[f] = ConflictMark

\* worktree.rs 684: format!("ideate-snapshot-{}", story_id); 8 stands for the
\* text "ideate-snapshot-"
StashMessage(story) == <<8>> \o story

\* a line of git stash list: "stash@{n}: On <branch>: <message>"; 9 stands for
\* the text before the message
StashLine(e) == <<9>> \o e.message

\* str::contains
Contains(line, ref) ==
    \E i \in 1..(Len(line) - Len(ref) + 1) : SubSeq(line, i, i + Len(ref) - 1) = ref

\* worktree.rs 760-765 (and 824-825): the first line of git stash list that
\* contains the reference; 0 if there is none
FindStash(ref) ==
    LET hits == {i \in 1..Len(stash) : Contains(StashLine(stash[i]), ref)}
    IN  IF hits = {} THEN 0 ELSE CHOOSE i \in hits : \A j \in hits : i <= j

RemoveAt(seq, i) == SubSeq(seq, 1, i - 1) \o SubSeq(seq, i + 1, Len(seq))

\* git stash apply of entry e on a clean checkout of tree h. The entry holds
\* the working copy w it was made from and its base commit; a file absent from
\* the base is one of the entry's untracked files. Tracked changes are merged
\* three-way; an untracked file is restored unless a file is in its place.
StashUntracked(e, f) == commits[e.base][f] = Absent /\ e.tree[f] # Absent

ApplyStash(h, e) ==
    LET b == commits[e.base]
        w == e.tree
        collide == {f \in Files : StashUntracked(e, f) /\ h[f] # Absent}
        conflict == {f \in Files : /\ ~StashUntracked(e, f)
                                   /\ w[f] # b[f] /\ h[f] # b[f] /\ h[f] # w[f]}
        merged(f) == IF w[f] = b[f] THEN h[f] ELSE w[f]
    IN  IF collide # {}
        THEN [ok |-> FALSE,
              tree |-> [f \in Files |->
                          IF StashUntracked(e, f) /\ f \notin collide THEN w[f] ELSE h[f]]]
        ELSE [ok |-> conflict = {},
              tree |-> [f \in Files |->
                          IF f \in conflict THEN ConflictMark ELSE merged(f)]]

\* snaps[k].used: snapshot k has been rolled back or discarded;
\* snaps[k].pure: no snapshot command has run since snapshot k was taken;
\* Touched(k) notes a command on snapshot k in every other snapshot
Touched(k) == [j \in DOMAIN snaps |->
                 IF j = k THEN snaps[j] ELSE [snaps[j] EXCEPT !.pure = FALSE]]

\* the working copy is edited: a file is created, changed or deleted
EditFile(f, c) ==
    /\ edits < MaxEdits
    /\ wt[f] # c
    /\ wt' = [wt EXCEPT ![f] = c]
    /\ edits' = edits + 1
    /\ last' = [op |-> "edit"]
    /\ UNCHANGED <<commits, parents, head, stash, snaps, treeVars,
                   procVars, regVars, taskVars, shut, refs, termVars>>

\* git add of the files fs and git commit
CommitFiles(fs) ==
    /\ Len(commits) < MaxCommits
    /\ edits < MaxEdits
    /\ edits' = edits + 1
    /\ ~Unmerged
    /\ \E f \in fs : wt[f] # HeadTree[f]
    /\ commits' = Append(commits, [f \in Files |-> IF f \in fs THEN wt[f] ELSE HeadTree[f]])
    /\ parents' = Append(parents, IF head = 0 THEN {} ELSE {head})
    /\ head' = Len(commits) + 1
    /\ last' = [op |-> "commit"]
    /\ UNCHANGED <<wt, stash, snaps, treeVars, procVars, regVars, taskVars, shut, refs, termVars>>

\* the working copy is left as git stash push made it: the checkout of HEAD
SnapshotReapplied_Skipped(h, e) == h

\* worktree.rs 697-702: git stash apply right after the push, on the clean
\* checkout h that the push left
SnapshotReapplied(h, e) == ApplyStash(h, e).tree

\* worktree.rs 668-725
CreateSnapshot(story) ==
    /\ Len(snaps) < MaxSnaps
    /\ IF HasChanges
       THEN IF Unmerged
            THEN \* git stash push fails on unmerged paths
                 /\ last' = [op |-> "create", ok |-> FALSE]
                 /\ UNCHANGED <<wt, stash, snaps>>
            ELSE LET \* e.snap: the checkpoint that made the entry (its stash commit)
                     e == [message |-> StashMessage(story), base |-> head, tree |-> wt,
                           snap |-> Len(snaps) + 1]
                 IN  /\ stash' = <<e>> \o stash
                     \* git stash apply on the checkout that the push left clean
                     /\ wt' = SnapshotReapplied(HeadTree, e)
                     /\ snaps' = Append(Touched(0),
                                        [ref |-> e.message, type |-> "stash",
                                         head |-> head, wt |-> wt', pure |-> TRUE,
                                         used |-> FALSE])
                     /\ last' = [op |-> "create", ok |-> TRUE]
       ELSE /\ snaps' = Append(Touched(0),
                               [ref |-> head, type |-> "commit",
                                head |-> head, wt |-> wt, pure |-> TRUE,
                                used |-> FALSE])
            /\ last' = [op |-> "create", ok |-> TRUE]
            /\ UNCHANGED <<wt, stash>>
    /\ UNCHANGED <<commits, parents, head, edits, treeVars,
                   procVars, regVars, taskVars, shut, refs, termVars>>

\* worktree.rs 738: git reset --hard HEAD, the commit HEAD is at when rollback runs
StashResetTarget(k) == head

\* worktree.rs 729-804, called with the reference and kind of snapshot k
RollbackChanges(k) ==
    /\ k \in DOMAIN snaps
    /\ IF snaps[k].type = "stash"
       THEN LET target == commits[StashResetTarget(k)]
                idx == FindStash(snaps[k].ref)
                r == ApplyStash(target, stash[idx])
            IN  /\ head' = StashResetTarget(k)
                /\ IF idx = 0
                   THEN /\ wt' = target
                        /\ UNCHANGED stash
                        /\ last' = [op |-> "rollback", snap |-> k, ok |-> TRUE,
                                    pure |-> snaps[k].pure]
                   ELSE /\ wt' = r.tree
                        /\ stash' = IF r.ok THEN RemoveAt(stash, idx) ELSE stash
                        /\ last' = [op |-> "rollback", snap |-> k, ok |-> r.ok,
                                    pure |-> snaps[k].pure]
       ELSE /\ head' = snaps[k].ref
            /\ wt' = commits[snaps[k].ref]
            /\ last' = [op |-> "rollback", snap |-> k, ok |-> TRUE,
                        pure |-> snaps[k].pure]
            /\ UNCHANGED stash
    /\ snaps' = [Touched(k) EXCEPT ![k].pure = FALSE, ![k].used = TRUE]
    /\ UNCHANGED <<commits, parents, edits, treeVars, procVars, regVars, taskVars, shut, refs, termVars>>

\* worktree.rs 808-838
DiscardSnapshot(k) ==
    /\ k \in DOMAIN snaps
    /\ IF snaps[k].type = "stash" /\ FindStash(snaps[k].ref) # 0
       THEN stash' = RemoveAt(stash, FindStash(snaps[k].ref))
       ELSE UNCHANGED stash
    /\ last' = [op |-> "discard", snap |-> k, ok |-> TRUE]
    /\ snaps' = [Touched(k) EXCEPT ![k].pure = FALSE, ![k].used = TRUE]
    /\ UNCHANGED <<commits, parents, head, wt, edits, treeVars,
                   procVars, regVars, taskVars, shut, refs, termVars>>

GitNext ==
    \/ \E f \in Files, c \in Contents : EditFile(f, c)
    \/ \E fs \in SUBSET Files : CommitFiles(fs)
    \/ \E story \in StoryIds : CreateSnapshot(story)
    \/ \E k \in 1..MaxSnaps : RollbackChanges(k)
    \/ \E k \in 1..MaxSnaps : DiscardSnapshot(k)

GitSpec == Init /\ [][GitNext]_vars

(* ------------------------- worktrees (worktree.rs) --------------------- *)
\* the commits reachable from commit c through the parents par
RECURSIVE Ancestors(_, _)
Ancestors(par, c) == {c} \cup UNION {Ancestors(par, p) : p \in par[c]}

\* git merge-base a b: the latest commit reachable from both
MergeBase(par, a, b) ==
    LET common == Ancestors(par, a) \cap Ancestors(par, b)
    IN  CHOOSE c \in common : \A d \in common : d <= c

\* git diff --name-only: the files whose content differs between two trees
DiffNames(ta, tb) == {f \in Files : ta[f] # tb[f]}

\* what a conflicting merge leaves in the working copy: conflict markers when
\* both sides have the file, the surviving version when one side deleted it
ConflictFile(o, t) == IF o = Absent THEN t ELSE IF t = Absent THEN o ELSE ConflictMark

\* three-way merge of the trees o (ours) and t (theirs) with base b
MergeTrees(b, o, t) ==
    LET clash == {f \in Files : o[f] # t[f] /\ o[f] # b[f] /\ t[f] # b[f]}
    IN  [unmerged |-> clash,
         tree |-> [f \in Files |->
                     IF f \in clash THEN ConflictFile(o[f], t[f])
                     ELSE IF o[f] = b[f] THEN t[f] ELSE o[f]]]

\* git merge of commit tip (0: the name resolves to nothing) of the commit
\* graph cs, par into the main working copy. A merge is refused while another
\* one is in progress and when it would overwrite a local change; noff is
\* --no-ff.
GitMerge(cs, par, tip, noff) ==
    LET m == MergeTrees(cs[MergeBase(par, head, tip)], HeadTree, cs[tip])
        touched == m.unmerged \cup DiffNames(m.tree, HeadTree)
        after == [f \in Files |-> IF f \in touched THEN m.tree[f] ELSE wt[f]]
        none == [out |-> "none", wt |-> wt, unmerged |-> {}, index |-> HeadTree]
    IN  CASE tip = 0 -> [none EXCEPT !.out = "missing"]
          [] tip # 0 /\ merging # NoMerge -> [none EXCEPT !.out = "busy"]
          [] tip # 0 /\ merging = NoMerge /\ tip \in Ancestors(par, head) ->
                [none EXCEPT !.out = "uptodate"]
          [] OTHER ->
                IF touched \cap DiffNames(wt, HeadTree) # {}
                THEN [none EXCEPT !.out = "refused"]
                ELSE [out |-> IF m.unmerged # {} THEN "conflict"
                              ELSE IF head \in Ancestors(par, tip) /\ ~noff
                                   THEN "ff" ELSE "clean",
                      wt |-> after, unmerged |-> m.unmerged, index |-> m.tree]

\* the working copy is left as the conflicting merge made it
MergeAbortTree_Left(w, m) == w

\* git merge --abort (git reset --merge) of the merge m in the working copy w:
\* every file the merge or a staged resolution changed goes back to HEAD, a
\* local change the merge did not touch is kept
MergeAbortTree(w, m) ==
    [f \in Files |->
        IF f \in m.unmerged \/ m.index[f] # HeadTree[f] THEN HeadTree[f] ELSE w[f]]

\* the branch is checked out in a registered worktree: the worktree at path p
\* is on the branch story/p
CheckedOut(branch, reg) == \E p \in reg : <<"story/">> \o p = branch

\* the branch of a previous attempt is left alone
PrepareBranchAfterDelete_Kept(branch, reg) == branches[branch]

\* worktree.rs 106-109: git branch -D, which refuses a branch that is checked
\* out in a worktree
PrepareBranchAfterDelete(branch, reg) ==
    IF CheckedOut(branch, reg) THEN branches[branch] ELSE 0

\* HEAD is taken to resolve whether or not the repository has a commit
HasCommits_Always(h) == TRUE

\* worktree.rs 43-56: git rev-parse HEAD fails with "unknown revision" in a
\* repository without commits
HasCommits(h) == h # 0

NoCommitsError == "No commits in repository. Please create an initial commit first."
WorktreeAddError == "Failed to create worktree"

\* get_base_ref (worktree.rs 42-75): the branch the main copy is on
GetBaseRef ==
    IF HasCommits(head)
    THEN [ok |-> TRUE, ref |-> refs.cur, error |-> ""]
    ELSE [ok |-> FALSE, ref |-> "none", error |-> NoCommitsError]

\* worktree.rs 79-137; last.again: the command before this one was a
\* prepare_story_worktree of the same story that returned Ok
PrepareWorktree(story) ==
    LET path == WorktreePath(story)
        branch == BranchName(story)
        again == last.op = "prepare" /\ last.story = story /\ last.ok
        \* worktree.rs 112
        base == GetBaseRef
    IN  /\ IF path = <<>>
           THEN \* the path is the container, which exists: remove_dir_all
                \* takes every directory in it; "story/" is no branch name
                /\ dirs' = [p \in Paths |-> NoDir]
                /\ container' = FALSE
                /\ last' = [op |-> "prepare", story |-> story, ok |-> FALSE,
                            path |-> path, branch |-> branch, again |-> again,
                            error |-> IF base.ok THEN WorktreeAddError ELSE base.error]
                /\ UNCHANGED <<branches, registered, records, refs>>
           ELSE LET \* worktree.rs 95-103
                    reg == IF dirs[path] # NoDir THEN registered \ {path} ELSE registered
                    tip == PrepareBranchAfterDelete(branch, reg)
                    \* worktree.rs 115-131: git worktree add -b
                    added == base.ok /\ tip = 0 /\ path \notin reg
                IN  /\ dirs' = [dirs EXCEPT ![path] = IF added THEN HeadTree ELSE NoDir]
                    \* worktree.rs 89-93: create_dir_all
                    /\ container' = TRUE
                    /\ registered' = IF added THEN reg \cup {path} ELSE reg
                    /\ branches' = [branches EXCEPT ![branch] = IF added THEN head ELSE tip]
                    /\ records' = IF added
                                  THEN records \cup {[story |-> story, path |-> path,
                                                      branch |-> branch]}
                                  ELSE records
                    /\ refs' = [refs EXCEPT !.rooted[branch] =
                                  IF added THEN base.ref
                                  ELSE IF tip = 0 THEN "none" ELSE @]
                    /\ last' = [op |-> "prepare", story |-> story, ok |-> added,
                                path |-> path, branch |-> branch, again |-> again,
                                error |-> IF added THEN ""
                                          ELSE IF base.ok THEN WorktreeAddError
                                          ELSE base.error]
        /\ UNCHANGED <<commits, parents, head, wt, stash, edits, snaps, merging, work, text,
                       procVars, regVars, taskVars, shut, termVars>>

\* the agent creates, changes or deletes files of its isolated working copy
AgentEdit(path, fs, c) ==
    /\ dirs[path] # NoDir
    /\ work < MaxWork
    /\ \E f \in fs : dirs[path][f] # c
    /\ dirs' = [dirs EXCEPT ![path] = [f \in Files |-> IF f \in fs THEN c ELSE @[f]]]
    /\ work' = work + 1
    /\ last' = [op |-> "work"]
    /\ UNCHANGED <<commits, parents, head, wt, stash, edits, snaps,
                   branches, registered, container, records, merging, text,
                   procVars, regVars, taskVars, shut, refs, termVars>>

\* the agent commits its changes on the story branch itself
AgentCommit(path) ==
    LET branch == <<"story/">> \o path
    IN  /\ dirs[path] # NoDir
        /\ branches[branch] # 0
        /\ dirs[path] # commits[branches[branch]]
        /\ commits' = Append(commits, dirs[path])
        /\ parents' = Append(parents, {branches[branch]})
        /\ branches' = [branches EXCEPT ![branch] = Len(commits) + 1]
        /\ last' = [op |-> "work"]
        /\ UNCHANGED <<head, wt, stash, edits, snaps, dirs, registered, container, records, merging,
                       work, text,
                       procVars, regVars, taskVars, shut, refs, termVars>>

\* worktree.rs 172-176: the exit status of git commit is not looked at; the
\* commit exists only if git made it (a hook can reject it, the committer
\* identity can be missing)
FinalizeCommitted(committed) == committed

\* worktree.rs 142-237, called with a WorktreeResult that prepare returned
FinalizeWorktree(rec, success, committed) ==
    LET path == rec.path
        branch == rec.branch
        exists == dirs[path] # NoDir
        tip0 == branches[branch]
        \* worktree.rs 152-162
        has_changes == success /\ exists /\ tip0 # 0 /\ dirs[path] # commits[tip0]
        \* worktree.rs 164-176: git add -A, git commit
        made == has_changes /\ FinalizeCommitted(committed)
        commits1 == IF made THEN Append(commits, dirs[path]) ELSE commits
        parents1 == IF made THEN Append(parents, {tip0}) ELSE parents
        tip1 == IF made THEN Len(commits) + 1 ELSE tip0
        \* worktree.rs 208-218
        dirs2 == [dirs EXCEPT ![path] = NoDir]
        reg2 == IF exists THEN registered \ {path} ELSE registered
        \* worktree.rs 179-186: the branch the main copy is on now, and the
        \* checkout of that branch, which changes nothing
        base_ref == GetBaseRef.ref
    IN  \* worktree.rs 189-193
        \E m \in {GitMerge(commits1, parents1, tip1, FALSE)} :
        LET failed == has_changes /\ m.out \notin {"uptodate", "ff", "clean"}
            out == IF has_changes THEN m.out ELSE "none"
        IN  /\ rec \in records
            /\ last' = [op |-> "finalize", story |-> rec.story, path |-> path,
                        branch |-> branch, success |-> success, merge |-> out,
                        ret |-> IF failed THEN "err" ELSE "ok",
                        message |-> IF failed
                                    THEN <<"Merge conflict, changes kept in branch">>
                                            \o branch
                                    ELSE <<>>]
            /\ IF failed
               THEN \* worktree.rs 195-204: git merge --abort, return Err
                    /\ commits' = commits1
                    /\ parents' = parents1
                    /\ branches' = [branches EXCEPT ![branch] = tip1]
                    /\ wt' = CASE m.out = "conflict" -> MergeAbortTree(m.wt, m)
                               [] m.out = "busy" -> MergeAbortTree(wt, merging)
                               [] OTHER -> wt
                    /\ merging' = NoMerge
                    /\ refs' = [refs EXCEPT !.cur = base_ref]
                    /\ UNCHANGED <<head, dirs, registered, records>>
               ELSE /\ commits' = IF out = "clean" THEN Append(commits1, m.index)
                                  ELSE commits1
                    /\ parents' = IF out = "clean" THEN Append(parents1, {head, tip1})
                                  ELSE parents1
                    /\ head' = CASE out = "clean" -> Len(commits1) + 1
                                 [] out = "ff" -> tip1
                                 [] OTHER -> head
                    /\ wt' = IF out \in {"clean", "ff"} THEN m.wt ELSE wt
                    /\ dirs' = dirs2
                    /\ registered' = reg2
                    \* worktree.rs 221-234: git branch -d deletes a merged branch,
                    \* git branch -D any branch; neither one that is checked out
                    /\ branches' = [branches EXCEPT ![branch] =
                                      IF /\ tip1 # 0
                                         /\ ~CheckedOut(branch, reg2)
                                         /\ (success => tip1 \in Ancestors(parents', head'))
                                      THEN 0 ELSE tip1]
                    /\ records' = records \ {rec}
                    /\ refs' = [refs EXCEPT
                                  !.cur = IF has_changes THEN base_ref ELSE @,
                                  !.rooted[branch] =
                                      IF branches'[branch] = 0 THEN "none" ELSE @]
                    /\ UNCHANGED merging
            /\ UNCHANGED <<stash, edits, snaps, container, work, text,
                           procVars, regVars, taskVars, shut, termVars>>

(* ---------------------- merge coordinator (worktree.rs) ---------------- *)
\* the lines of git diff --name-only, in path order
RECURSIVE SortedSeq(_)
SortedSeq(fs) ==
    IF fs = {} THEN <<>>
    ELSE LET f == CHOOSE x \in fs : \A y \in fs : x <= y
         IN  <<f>> \o SortedSeq(fs \ {f})

\* worktree.rs 998-1009: git show ref:path, the empty text if that fails
GetFileAtRef(c, f) == commits[c][f]

\* every file changed on the branch is reported as conflicting
InMainFiles_All(main_files, f) == TRUE

\* worktree.rs 972: main_files.contains(file_path)
InMainFiles(main_files, f) == f \in main_files

\* worktree.rs 968-988: the loop over the files changed on the branch
RECURSIVE Classify(_, _, _, _, _)
Classify(branch_files, main_files, base, tip, acc) ==
    IF branch_files = <<>> THEN acc
    ELSE LET f == Head(branch_files)
         IN  Classify(Tail(branch_files), main_files, base, tip,
                IF InMainFiles(main_files, f)
                THEN [acc EXCEPT !.conflicting_files =
                        Append(@, [file_path |-> f,
                                   ours_content |-> GetFileAtRef(head, f),
                                   theirs_content |-> GetFileAtRef(tip, f),
                                   base_content |-> GetFileAtRef(base, f)])]
                ELSE [acc EXCEPT !.non_conflicting_count = @ + 1])

\* worktree.rs 923-995; the main branch is the one the main copy is on
AnalyzeMergeConflicts(branch) ==
    LET tip == branches[branch]
        base == MergeBase(parents, head, tip)
        r == Classify(SortedSeq(DiffNames(commits[base], commits[tip])),
                      DiffNames(commits[base], HeadTree), base, tip,
                      [conflicting_files |-> <<>>, non_conflicting_count |-> 0])
    IN  /\ last' = IF tip = 0
                   THEN [op |-> "analyze", branch |-> branch, ok |-> FALSE]
                   ELSE [op |-> "analyze", branch |-> branch, ok |-> TRUE,
                         conflicting_files |-> r.conflicting_files,
                         non_conflicting_count |-> r.non_conflicting_count]
        /\ UNCHANGED <<commits, parents, head, wt, stash, edits, snaps, treeVars,
                       procVars, regVars, taskVars, shut, refs, termVars>>

Resolutions ==
    UNION {[1..k -> [file_path : Files, strategy : Strategies]] : k \in 0..MaxRes}

\* worktree.rs 1045-1103: the resolutions in order, each applied to the file
\* and staged; an unknown strategy returns at once
RECURSIVE ApplyResolutions(_, _)
ApplyResolutions(st, rs) ==
    IF rs = <<>> THEN st
    ELSE LET f == Head(rs).file_path
             strategy == Head(rs).strategy
             \* git checkout --ours / --theirs: the side's version of an
             \* unmerged file if that side has one, else the staged file
             side(tree) == IF f \in st.unmerged
                           THEN IF tree[f] # Absent THEN tree[f] ELSE st.wt[f]
                           ELSE st.index[f]
             content == CASE strategy = "ours" -> side(HeadTree)
                          [] strategy = "theirs" -> side(commits[st.theirs])
                          [] OTHER -> Combined
         IN  IF strategy \notin {"ours", "theirs", "both"}
             THEN [st EXCEPT !.unknown = TRUE]
             ELSE ApplyResolutions([st EXCEPT !.wt[f] = content,
                                              !.index[f] = content,
                                              !.unmerged = @ \ {f},
                                              !.applied = @ + 1],
                                   Tail(rs))

\* git commit goes through whatever the index holds
CommitRefused_Never(unmerged) == FALSE

\* git commit fails while the index has unmerged files (worktree.rs 1112-1117
\* recognises its message)
CommitRefused(unmerged) == unmerged # {}

\* the merge the resolutions act on: the one just started, the one that was
\* in progress already, or none
MergeState(m, tip) ==
    [wt |-> m.wt,
     index |-> IF m.out = "busy" THEN merging.index ELSE m.index,
     unmerged |-> IF m.out = "busy" THEN merging.unmerged ELSE m.unmerged,
     theirs |-> CASE m.out = "conflict" -> tip
                  [] m.out = "busy" -> merging.theirs
                  [] OTHER -> 0,
     unknown |-> FALSE, applied |-> 0]

\* worktree.rs 1021-1122
MergeWithResolutions(branch, resolutions) ==
    \E m \in {GitMerge(commits, parents, branches[branch], TRUE)} :
    \E st \in {ApplyResolutions(MergeState(m, branches[branch]), resolutions)} :
        LET \* worktree.rs 1035-1042: a merge without conflicts is committed at once
            clean == m.out \in {"uptodate", "clean"}
            ret == CASE clean -> "ok"
                     [] st.unknown -> "unknown"
                     [] CommitRefused(st.unmerged) -> "unresolved"
                     [] st.theirs = 0 /\ st.index = HeadTree -> "failed"
                     [] OTHER -> "ok"
            \* the commit of a started merge has two parents
            par == IF m.out = "clean" THEN {head, branches[branch]}
                   ELSE IF st.theirs # 0 THEN {head, st.theirs} ELSE {head}
            commit == ret = "ok" /\ m.out # "uptodate"
        IN  /\ last' = [op |-> "merge", ret |-> ret,
                        conflicts |-> MergeState(m, branches[branch]).unmerged,
                        listed |-> {resolutions[i].file_path : i \in DOMAIN resolutions},
                        count |-> Len(resolutions),
                        known |-> \A i \in DOMAIN resolutions :
                                     resolutions[i].strategy \in {"ours", "theirs", "both"},
                        staged |-> IF clean THEN 0 ELSE st.applied]
            /\ commits' = IF commit
                          THEN Append(commits, IF clean THEN m.index ELSE st.index)
                          ELSE commits
            /\ parents' = IF commit THEN Append(parents, par) ELSE parents
            /\ head' = IF commit THEN Len(commits) + 1 ELSE head
            /\ wt' = IF clean THEN m.wt ELSE st.wt
            /\ merging' = IF ret \in {"unknown", "unresolved"} /\ st.theirs # 0
                          THEN [theirs |-> st.theirs, unmerged |-> st.unmerged,
                                index |-> st.index]
                          ELSE NoMerge
            /\ UNCHANGED <<stash, edits, snaps, branches, dirs, registered, container, records,
                           work, text, procVars, regVars, taskVars, shut, refs, termVars>>

\* only an abort that git carried out is a success
AbortMergeOk_Strict(success, no_merge) == success

\* worktree.rs 1137-1142: a failure of git merge --abort whose message has
\* "no merge" in it is not an error
AbortMergeOk(success, no_merge) == success \/ no_merge

\* worktree.rs 1126-1145: git merge --abort fails with "There is no merge to
\* abort" when no merge is in progress
AbortMerge ==
    /\ wt' = IF merging # NoMerge THEN MergeAbortTree(wt, merging) ELSE wt
    /\ merging' = NoMerge
    /\ last' = [op |-> "abort", merging |-> merging # NoMerge,
                ok |-> AbortMergeOk(merging # NoMerge, merging = NoMerge)]
    /\ UNCHANGED <<commits, parents, head, stash, edits, snaps,
                   branches, dirs, registered, container, records, work, text,
                   procVars, regVars, taskVars, shut, refs, termVars>>

\* worktrees: stories are prepared, agents work in the isolated copies while
\* the main line moves on, and the stories are finalized
TreeNext ==
    \/ \E story \in WorktreeStoryIds : PrepareWorktree(story)
    \/ \E path \in Paths, fs \in SUBSET Files, c \in Contents :
          AgentEdit(path, fs, c)
    \/ \E path \in Paths : AgentCommit(path)
    \/ \E f \in Files, c \in Contents : merging = NoMerge /\ EditFile(f, c)
    \/ \E fs \in SUBSET Files : merging = NoMerge /\ CommitFiles(fs)
    \/ \E rec \in records, success, committed \in BOOLEAN :
          FinalizeWorktree(rec, success, committed)

\* the story whose branch is merged, and the branch names the merge
\* coordinator is called with: that story's and one that does not exist
MergeStories == {<<"a">>}
MergeBranches == {BranchName(<<"a">>), BranchName(<<".">>)}

\* merges: the story branch and the main line move on, and the branch is
\* analyzed and merged with resolutions
MergeNext ==
    \/ \E story \in MergeStories : PrepareWorktree(story)
    \/ \E path \in Paths, fs \in SUBSET Files, c \in Contents :
          AgentEdit(path, fs, c)
    \/ \E path \in Paths : AgentCommit(path)
    \/ \E f \in Files, c \in Contents : merging = NoMerge /\ EditFile(f, c)
    \/ \E fs \in SUBSET Files : merging = NoMerge /\ CommitFiles(fs)
    \/ \E branch \in MergeBranches : AnalyzeMergeConflicts(branch)
    \/ \E branch \in MergeBranches, rs \in Resolutions :
          Len(commits) < MaxGraph /\ MergeWithResolutions(branch, rs)
    \/ AbortMerge

MergeSpec == Init /\ [][MergeNext]_vars

\* git checkout of the other branch in the main copy, which is clean
SwitchBranch ==
    /\ refs.other # 0
    /\ merging = NoMerge
    /\ wt = HeadTree
    /\ head' = refs.other
    /\ wt' = commits[refs.other]
    /\ refs' = [refs EXCEPT !.cur = IF @ = "main" THEN "dev" ELSE "main",
                            !.other = head]
    /\ last' = [op |-> "switch"]
    /\ UNCHANGED <<commits, parents, stash, edits, snaps, treeVars,
                   procVars, regVars, taskVars, shut, termVars>>

\* a story is prepared and finalized while the main copy moves between its
\* two branches
BaseNext ==
    \/ \E story \in MergeStories : PrepareWorktree(story)
    \/ \E path \in Paths, fs \in SUBSET Files, c \in Contents :
          AgentEdit(path, fs, c)
    \/ \E path \in Paths : AgentCommit(path)
    \/ \E f \in Files, c \in Contents : merging = NoMerge /\ EditFile(f, c)
    \/ \E fs \in SUBSET Files : merging = NoMerge /\ CommitFiles(fs)
    \/ \E rec \in records, success, committed \in BOOLEAN :
          FinalizeWorktree(rec, success, committed)
    \/ SwitchBranch

BaseSpec == Init /\ [][BaseNext]_vars

\* a repository right after git init: files in the working copy, no commit
RepoEmpty ==
    /\ commits = <<>>
    /\ parents = <<>>
    /\ head = 0
    /\ wt = FirstTree
    /\ stash = <<>>
    /\ edits = 0
    /\ snaps = <<>>
    /\ last = NoOp
    /\ branches = [b \in BranchNames |-> 0]
    /\ dirs = [p \in Paths |-> NoDir]
    /\ registered = {}
    /\ container = FALSE
    /\ records = {}
    /\ merging = NoMerge
    /\ work = 0
    /\ refs = [RefsMain EXCEPT !.other = 0]
    /\ TerminalsIdle

EmptyInit == SupervisorInit /\ waitFault = FALSE /\ RepoEmpty /\ text = NoText

TreeSpec == Init /\ [][TreeNext]_vars

\* worktrees in a repository that starts without a commit
EmptySpec == EmptyInit /\ [][TreeNext]_vars

(* ------------------------- recovery (worktree.rs) ---------------------- *)
\* worktree.rs 842-900: without the container nothing is done; else every
\* registered worktree under it is removed by force, then the container, then
\* every branch git branch --list story/* prints is deleted by force
CleanupAllStoryWorktrees ==
    /\ last' = [op |-> "cleanup", ok |-> TRUE, existed |-> container]
    /\ IF ~container
       THEN UNCHANGED <<registered, dirs, container, branches>>
       ELSE /\ registered' = {}
            /\ dirs' = [p \in Paths |-> NoDir]
            /\ container' = FALSE
            /\ branches' = [b \in BranchNames |-> 0]
    /\ UNCHANGED <<commits, parents, head, wt, stash, edits, snaps,
                   records, merging, work, text,
                   procVars, regVars, taskVars, shut, refs, termVars>>

\* recovery: stories are prepared and worked on, and everything is cleaned up
CleanNext ==
    \/ \E story \in WorktreeStoryIds : PrepareWorktree(story)
    \/ \E path \in Paths, fs \in SUBSET Files, c \in Contents :
          AgentEdit(path, fs, c)
    \/ \E path \in Paths : AgentCommit(path)
    \/ CleanupAllStoryWorktrees

CleanSpec == Init /\ [][CleanNext]_vars


(* ------------------- the text of the resolution "both" ----------------- *)
\* str::trim_end strips trailing white space, line feeds included
IsWhitespace(c) == c \in {" ", "\n"}

RECURSIVE TrimEnd(_)
TrimEnd(s) ==
    IF s = <<>> THEN s
    ELSE IF IsWhitespace(s[Len(s)]) THEN TrimEnd(SubSeq(s, 1, Len(s) - 1))
    ELSE s

\* the two versions written one after the other as they are
CombineBoth_Plain(ours_content, theirs_content) == ours_content \o theirs_content

\* worktree.rs 1090: format!("{}\n{}", ours_content.trim_end(), theirs_content)
CombineBoth(ours_content, theirs_content) ==
    TrimEnd(ours_content) \o <<"\n">> \o theirs_content

\* worktree.rs 1063-1091: the strategy "both" for one conflicting file whose
\* versions on the main line and on the branch are text.ours and text.theirs
WriteBoth ==
    /\ ~text.written
    /\ text' = [text EXCEPT !.written = TRUE,
                            !.out = CombineBoth(text.ours, text.theirs)]
    /\ last' = [op |-> "both"]
    /\ UNCHANGED <<commits, parents, head, wt, stash, edits, snaps,
                   branches, dirs, registered, container, records, merging, work,
                   procVars, regVars, taskVars, shut, refs, termVars>>

\* every pair of versions of the conflicting file
TextInit ==
    /\ SupervisorInit /\ waitFault = FALSE /\ RepoClean
    /\ \E o \in Texts, t \in Texts :
          text = [ours |-> o, theirs |-> t, written |-> FALSE, out |-> <<>>]

TextNext == WriteBoth

TextSpec == TextInit /\ [][TextNext]_vars


(* ------------------------- terminals (terminal.rs) --------------------- *)
\* the reader thread's cleanup notifies whether or not it found the entry
TerminalExitEmitted_Always(found) == TRUE

\* terminal.rs 172-184, 267-280: terminal-exit is emitted only by the code
\* that took the entry out of PTY_TERMINALS
TerminalExitEmitted(found) == found

\* terminal.rs 97-135: spawn_terminal generates the id, opens the PTY, spawns
\* the shell and starts the reader thread; a failure before that returns Err
SpawnTerminal(t, ok) ==
    /\ term[t].call = "none"
    /\ \A u \in TermIds : u < t => term[u].call # "none"
    /\ term' = [term EXCEPT ![t] =
                  IF ok THEN [@ EXCEPT !.call = "started", !.shell = "running",
                                       !.reader = "reading"]
                  ELSE [@ EXCEPT !.call = "failed"]]
    /\ UNCHANGED <<terminals, tlast, procVars, regVars, taskVars, shut, repoVars>>

\* terminal.rs 192-203: spawn_terminal locks PTY_TERMINALS, inserts the entry
\* and returns the id
InsertTerminal(t) ==
    /\ term[t].call = "started"
    /\ terminals' = terminals \cup {t}
    /\ term' = [term EXCEPT ![t].call = "returned"]
    /\ UNCHANGED <<tlast, procVars, regVars, taskVars, shut, repoVars>>

\* the shell exits on its own
ShellExit(t) ==
    /\ term[t].shell = "running"
    /\ term' = [term EXCEPT ![t].shell = "exited"]
    /\ UNCHANGED <<terminals, tlast, procVars, regVars, taskVars, shut, repoVars>>

\* terminal.rs 141-155: the reader thread reads a chunk and emits
\* terminal-output; it leaves the loop when the emit fails
ReadTerminal(t, heard) ==
    /\ term[t].reader = "reading"
    /\ term[t].out < MaxChunks
    /\ term' = [term EXCEPT ![t].out = @ + 1,
                            ![t].reader = IF heard THEN "reading" ELSE "cleanup"]
    /\ UNCHANGED <<terminals, tlast, procVars, regVars, taskVars, shut, repoVars>>

\* terminal.rs 142, 156-164: end of stream or a read error once the shell is
\* gone
ReaderEnd(t) ==
    /\ term[t].reader = "reading"
    /\ term[t].shell = "exited"
    /\ term' = [term EXCEPT ![t].reader = "cleanup"]
    /\ UNCHANGED <<terminals, tlast, procVars, regVars, taskVars, shut, repoVars>>

\* terminal.rs 168-190: the reader thread's cleanup, under the lock
ReaderCleanup(t) ==
    LET found == t \in terminals
    IN  /\ term[t].reader = "cleanup"
        /\ terminals' = terminals \ {t}
        /\ term' = [term EXCEPT ![t].reader = "done",
                                ![t].exits = IF TerminalExitEmitted(found)
                                             THEN @ + 1 ELSE @]
        /\ UNCHANGED <<tlast, procVars, regVars, taskVars, shut, repoVars>>

\* terminal.rs 258-281: kill_terminal with an id spawn_terminal has returned,
\* under the lock
KillTerminal(t) ==
    LET found == t \in terminals
    IN  /\ term[t].call = "returned"
        /\ terminals' = terminals \ {t}
        /\ term' = [term EXCEPT ![t].shell = IF found THEN "exited" ELSE @,
                                ![t].exits = IF found THEN @ + 1 ELSE @]
        /\ tlast' = [op |-> "kill", id |-> t, found |-> found]
        /\ UNCHANGED <<procVars, regVars, taskVars, shut, repoVars>>

TermNext ==
    \/ \E t \in TermIds, ok \in BOOLEAN : SpawnTerminal(t, ok)
    \/ \E t \in TermIds : InsertTerminal(t)
    \/ \E t \in TermIds : ShellExit(t)
    \/ \E t \in TermIds, heard \in BOOLEAN : ReadTerminal(t, heard)
    \/ \E t \in TermIds : ReaderEnd(t)
    \/ \E t \in TermIds : ReaderCleanup(t)
    \/ \E t \in TermIds : KillTerminal(t)

TermSpec == Init /\ [][TermNext]_vars

\* spawn_terminal runs to its end, and the reader thread is scheduled
TermFairness ==
    \A t \in TermIds :
        /\ WF_vars(InsertTerminal(t))
        /\ WF_vars(ReaderEnd(t))
        /\ WF_vars(ReaderCleanup(t))

TermLiveSpec == Init /\ [][TermNext]_vars /\ TermFairness

(* ------------------------------- claims -------------------------------- *)
WaitTasks == {t \in Tasks : op[t] = "wait"}
KillTasks == {t \in Tasks : op[t] = "kill"}
KillNotFound == KillAgentResult(FALSE, "not found")

\* C1: for every id returned by spawn_agent at most one agent-exit notification
\* is ever emitted, whatever wait_agent and kill_agent calls are made on it.
C1_AtMostOneExit == \A id \in returned : ExitCount(id) <= 1

\* C2: once an agent-exit notification for an id has been emitted, the id is
\* not in the registry, in that state and in every later one.
C2_ExitAfterRemoval == \A id \in Ids : ExitCount(id) > 0 => id \notin registry

\* a kill_agent call removed the entry of a spawned id and a wait_agent call on
\* the same id returned: both have emitted their exit notification
C2_Witness ==
    \E t \in KillTasks, u \in WaitTasks :
        /\ arg[t] = arg[u] /\ arg[t] \in Ids
        /\ pc[t] = "done" /\ pc[u] = "done"
        /\ removedBy[arg[t]] = t /\ res[t].success
        /\ ExitCount(arg[t]) = 2

\* C3: a wait_agent call owns the registry lock only while it is at its
\* try_wait check; it never owns it while sleeping between polls, nor while
\* waiting for the lock, emitting or after it returned.
C3_WaitLockOnlyDuringCheck ==
    \A t \in WaitTasks : lock = t => pc[t] = "w_check"

\* a wait_agent call sleeps between two polls while a kill_agent call on the
\* same id owns the lock
C3_Witness ==
    \E t \in WaitTasks, u \in KillTasks :
        pc[t] = "w_sleep" /\ lock = u /\ arg[u] = arg[t]

\* Scheduling: every thread that can take its next step does so (WF); a thread
\* blocked in PROCESSES.lock() gets the mutex once it is released often enough
\* (SF): the pollers sleep 50 ms between two acquisitions. Processes owe nothing:
\* they may run forever and may ignore SIGTERM.
Fairness ==
    /\ \A t \in Tasks :
          /\ SF_vars(WaitAcquire(t))
          /\ WF_vars(WaitCheck(t))
          /\ WF_vars(WaitWake(t))
          /\ WF_vars(WaitEmit(t))
          /\ SF_vars(KillLookup(t))
          /\ WF_vars(KillPoll(t))
          /\ WF_vars(KillReturn(t))
    /\ WF_vars(\E id \in Ids : ShutdownNext(id))
    /\ WF_vars(ShutdownPoll)
    /\ WF_vars(ShutdownClear)

\* the supervisor of Next, with LiveProcs processes and LiveTasks callers
LiveNext ==
    \/ \E ok \in BOOLEAN : nextId < LiveProcs /\ SpawnCreate(ok)
    \/ \E id \in Ids : SpawnRegister(id)
    \/ \E id \in Ids, c \in ExitCodes : ProcExit(id, c)
    \/ \E id \in Ids : ProcTerminated(id)
    \/ \E t \in 1..LiveTasks, id \in Ids \cup {BogusId} : WaitStart(t, id)
    \/ \E t \in Tasks : WaitAcquire(t)
    \/ \E t \in Tasks : WaitCheck(t)
    \/ \E t \in Tasks : WaitWake(t)
    \/ \E t \in Tasks : WaitEmit(t)
    \/ \E t \in 1..LiveTasks, id \in Ids \cup {BogusId} : KillStart(t, id)
    \/ \E t \in Tasks : KillLookup(t)
    \/ \E t \in Tasks : KillPoll(t)
    \/ \E t \in Tasks : KillReturn(t)
    \/ ShutdownBegin
    \/ \E id \in Ids : ShutdownNext(id)
    \/ ShutdownPoll
    \/ ShutdownClear

LiveSpec == Init /\ [][LiveNext]_vars /\ Fairness

InFlight(t) == pc[t] \notin {"idle", "done"}
ProcOf(t) == IF arg[t] \in Ids THEN proc[arg[t]] ELSE "none"

\* C4: when a kill_agent call and a wait_agent call on the same id are in
\* flight and the process has not exited, eventually both calls have returned
\* and the process has terminated.
C4_KillAndWaitReturn ==
    \A t, u \in Tasks :
        (/\ op[t] = "kill" /\ op[u] = "wait"
         /\ InFlight(t) /\ InFlight(u)
         /\ arg[t] = arg[u]
         /\ ProcOf(t) = "running")
          ~> (/\ pc[t] = "done" /\ pc[u] = "done"
              /\ ProcOf(t) = "exited")

\* the kill_agent call had to send SIGKILL to a process that ignored SIGTERM
\* while a wait_agent call on the same id was polling; both have returned
C4_Witness ==
    \E t \in KillTasks, u \in WaitTasks :
        /\ arg[t] = arg[u] /\ arg[t] \in Ids
        /\ pc[t] = "done" /\ pc[u] = "done"
        /\ res[t] = KillAgentResult(TRUE, "SIGKILL")
        /\ res[u] = WaitAgentResult(NoCode, FALSE)
        /\ removedBy[arg[t]] = t

\* C5: kill_agent on an id that is not in the registry reports success=false,
\* "not found", sends no signal, leaves the registry unchanged and then
\* returns without emitting an exit notification; and when a kill_agent call
\* returns, its id is not in the registry, so a second kill reports not found.
C5_KillMissingStep ==
    \A t \in Tasks :
        /\ (pc[t] = "k_lock" /\ pc'[t] # "k_lock" /\ arg[t] \notin registry)
              => /\ res'[t] = KillNotFound
                 /\ pc'[t] = "k_ret"
                 /\ sigs' = sigs /\ sent'[t] = {}
                 /\ registry' = registry /\ log' = log
        /\ (pc[t] = "k_ret" /\ res[t] = KillNotFound /\ pc'[t] = "done")
              => log' = log /\ sigs' = sigs /\ registry' = registry
        /\ (pc[t] = "k_ret" /\ pc'[t] = "done") => arg[t] \notin registry'

\* C5: every step of a kill_agent call on a missing id is as stated above
C5_KillMissing == [][C5_KillMissingStep]_vars

\* two kill_agent calls on the same spawned id have returned: the one that
\* removed the entry, and one that reported not found
C5_Witness ==
    \E t, u \in KillTasks :
        /\ t # u /\ arg[t] = arg[u] /\ arg[t] \in Ids
        /\ pc[t] = "done" /\ pc[u] = "done"
        /\ res[t].success /\ res[u] = KillNotFound
        /\ ExitCount(arg[t]) = 1

\* C6: of two kill_agent calls on the same id at most one signals the process;
\* when one of the two removed the entry, that one sent the signal and the
\* other one reports not found without having sent any signal.
C6_OneKillSignals ==
    \A t, u \in KillTasks :
        (t # u /\ arg[t] = arg[u] /\ arg[t] \in Ids) =>
            /\ ~(sent[t] # {} /\ sent[u] # {})
            /\ (pc[t] = "done" /\ pc[u] = "done" /\ removedBy[arg[t]] = t)
                  => /\ "TERM" \in sent[t]
                     /\ sent[u] = {} /\ res[u] = KillNotFound

\* two kill_agent calls on the same id were in flight together: one holds the
\* lock and polls, the other is blocked on the lock
C6_Witness ==
    \E t, u \in KillTasks :
        /\ t # u /\ arg[t] = arg[u] /\ arg[t] \in Ids
        /\ pc[t] = "k_poll" /\ pc[u] = "k_lock"

\* C7: once kill_all_processes has returned, the registry is empty and every
\* process that spawn_agent created has terminated.
C7_ShutdownLeavesNothing ==
    shut.pc = "done" =>
        /\ registry = {}
        /\ \A id \in Ids : Created(id) => proc[id] = "exited"

\* C8: wait_agent on an id that is not in the registry returns Ok with
\* success=false and no exit code.
C8_WaitMissingStep ==
    \A t \in Tasks :
        (pc[t] = "w_check" /\ pc'[t] # "w_check" /\ arg[t] \notin registry)
            => /\ res'[t] = WaitAgentResult(NoCode, FALSE)
               /\ registry' = registry

\* C8: every wait_agent check of a missing id yields that result and leaves
\* the registry as it is
C8_WaitMissing == [][C8_WaitMissingStep]_vars

\* spawn, one kill_agent that removed the entry, then a wait_agent on the
\* same id that returned
C8_Witness ==
    \E t \in WaitTasks, u \in KillTasks :
        /\ arg[t] = arg[u] /\ arg[t] \in Ids
        /\ removedBy[arg[t]] = u /\ pc[u] = "done"
        /\ pc[t] = "done" /\ res[t] = WaitAgentResult(NoCode, FALSE)

\* C9: no agent-output notification of a process is emitted after an
\* agent-exit notification of that process.
C9_OutputBeforeExit ==
    \A id \in Ids : \A i, j \in 1..Len(log[id]) :
        (IsExit(log[id][i]) /\ IsOutput(log[id][j])) => j < i

\* C10: after create_story_snapshot, edits and commits in the main working
\* copy, and then rollback_story_changes of that snapshot, HEAD and the working
\* copy are what they were right after the snapshot was taken.
C10_RollbackRestores ==
    (last.op = "rollback" /\ last.pure) =>
        /\ head = snaps[last.snap].head
        /\ wt = snaps[last.snap].wt

\* C11: finalize_story_worktree with success = true never loses the story's
\* work: after it returns, Ok or Err, the files of the isolated working copy
\* are a commit that is contained in the main line or reachable from the story
\* branch (or, when it returned Err, are still in the isolated working copy).
C11_WorkKeptStep ==
    (last'.op = "finalize" /\ last'.success /\ dirs[last'.path] # NoDir) =>
        LET files == dirs[last'.path]
            tip == branches[last'.branch]
            kept == branches'[last'.branch]
        IN  \/ \E c \in 1..Len(commits') :
                  /\ commits'[c] = files
                  /\ (c = tip \/ parents'[c] = {tip})
                  /\ \/ c \in Ancestors(parents', head')
                     \/ kept # 0 /\ c \in Ancestors(parents', kept)
            \/ last'.ret = "err" /\ dirs'[last'.path] = files

\* C11: every finalize_story_worktree step with success = true keeps the work
C11_WorkKept == [][C11_WorkKeptStep]_vars

\* C12: when the merge in finalize_story_worktree conflicts, finalize returns
\* an error naming the branch, the story branch still exists, and the main
\* working copy has no merge in progress and the content it had before.
C12_ConflictStep ==
    (last'.op = "finalize" /\ last'.merge = "conflict") =>
        /\ last'.ret = "err"
        /\ last'.message = <<"Merge conflict, changes kept in branch">> \o last'.branch
        /\ branches'[last'.branch] # 0
        /\ merging' = NoMerge
        /\ \A f \in Files : wt'[f] # ConflictMark
        /\ wt' = wt

\* C12: every finalize_story_worktree step whose merge conflicts is as stated
C12_ConflictKeepsBranch == [][C12_ConflictStep]_vars

\* finalize_story_worktree committed the story's work, the merge into the main
\* line conflicted, and finalize returned the error
C12_Witness ==
    /\ last.op = "finalize" /\ last.merge = "conflict" /\ last.ret = "err"
    /\ branches[last.branch] = Len(commits)
    /\ dirs[last.path] # NoDir

\* C13: prepare_story_worktree called twice in sequence for the same story
\* returns the same path and branch both times and leaves exactly one
\* registered worktree, one directory and one branch for the story; no story
\* ever has more than one worktree directory.
C13_PrepareTwiceStep ==
    /\ (last.op = "prepare" /\ last.ok /\ last'.op = "prepare" /\ last'.story = last.story)
          => /\ last'.ok
             /\ last'.path = last.path /\ last'.branch = last.branch
    /\ (last'.op = "prepare" /\ last'.again)
          => /\ {p \in registered' : <<"story/">> \o p = last'.branch} = {last'.path}
             /\ dirs'[last'.path] # NoDir
             /\ branches'[last'.branch] # 0
    /\ \A story \in WorktreeStoryIds :
          Cardinality({p \in Paths : dirs'[p] # NoDir /\ p = WorktreePath(story)}) <= 1

\* C13: every step keeps one worktree per story, and the second of two
\* prepare_story_worktree calls in sequence is as stated
C13_PrepareTwice == [][C13_PrepareTwiceStep]_vars

\* the second of two prepare_story_worktree calls in sequence has returned Ok
\* for a story whose isolated working copy and branch existed
C13_Witness ==
    /\ last.op = "prepare" /\ last.again /\ last.ok
    /\ last.path \in registered /\ dirs[last.path] # NoDir

\* C14: the branch name and the directory name computed from a story id are
\* deterministic and injective: the same id gives the same names, two
\* different ids never give the same branch name or the same directory name.
C14_NamesInjective ==
    \A r1, r2 \in records :
        /\ r1.story = r2.story => (r1.branch = r2.branch /\ r1.path = r2.path)
        /\ r1.story # r2.story => (r1.branch # r2.branch /\ r1.path # r2.path)

\* C15: prepare_story_worktree and finalize_story_worktree for one story id
\* never remove, recreate or modify the worktree directory or the branch of a
\* different story id.
C15_OtherStoryStep ==
    last'.op \in {"prepare", "finalize"} =>
        \A r \in records :
            r.story # last'.story =>
                /\ dirs'[r.path] = dirs[r.path]
                /\ branches'[r.branch] = branches[r.branch]

\* C15: every prepare and finalize step leaves the other stories alone
C15_OtherStoryUntouched == [][C15_OtherStoryStep]_vars

\* C16: rollback_story_changes with a stash-kind snapshot whose labelled stash
\* no longer exists reports an error and does not discard the current
\* uncommitted and untracked changes of the working copy.
C16_MissingStashStep ==
    \A k \in DOMAIN snaps :
        (/\ last'.op = "rollback" /\ last'.snap = k
         /\ snaps[k].type = "stash" /\ FindStash(snaps[k].ref) = 0)
            => (~last'.ok /\ wt' = wt)

\* C16: every rollback step of a snapshot whose stash is gone is as stated
C16_MissingStashReported == [][C16_MissingStashStep]_vars

\* C17: a snapshot that has been rolled back or discarded cannot be used
\* again: a later rollback_story_changes with the same reference does not
\* succeed and does not change the working copy, for both kinds.
C17_NoReuseStep ==
    \A k \in DOMAIN snaps :
        (last'.op = "rollback" /\ last'.snap = k /\ snaps[k].used)
            => (~last'.ok /\ wt' = wt /\ head' = head)

\* C17: every rollback step of a used snapshot is as stated
C17_NoReuse == [][C17_NoReuseStep]_vars

\* C18: analyze_merge_conflicts reports as conflicting exactly the files
\* changed on both the main line and the branch since their merge base, each
\* once and with its three versions, and counts every other file changed on
\* the branch as non-conflicting: conflicting plus non_conflicting_count is
\* the number of files changed on the branch, and a branch that only touches
\* files untouched by main has zero conflicting files.
C18_AnalyzeClassifies ==
    (last.op = "analyze" /\ last.ok) =>
        LET tip == branches[last.branch]
            base == MergeBase(parents, head, tip)
            onBranch == {f \in Files : commits[tip][f] # commits[base][f]}
            onMain == {f \in Files : commits[head][f] # commits[base][f]}
            cf == last.conflicting_files
        IN  /\ {cf[i].file_path : i \in DOMAIN cf} = onBranch \cap onMain
            /\ Len(cf) = Cardinality(onBranch \cap onMain)
            /\ Len(cf) + last.non_conflicting_count = Cardinality(onBranch)
            /\ onBranch \cap onMain = {} => cf = <<>>
            /\ \A i \in DOMAIN cf :
                  /\ cf[i].ours_content = commits[head][cf[i].file_path]
                  /\ cf[i].theirs_content = commits[tip][cf[i].file_path]
                  /\ cf[i].base_content = commits[base][cf[i].file_path]

\* an analysis that found a conflicting file and a file only the branch changed
C18_Witness ==
    /\ last.op = "analyze" /\ last.ok
    /\ Len(last.conflicting_files) = 1
    /\ last.non_conflicting_count = 1

\* C20: when the merge stops on conflicts, merge_with_resolutions creates the
\* merge commit only after every listed resolution has been applied and
\* staged; if a conflicting file is not covered by a resolution it returns
\* the 'conflicts remain unresolved' error and creates no commit.
C20_CommitStep ==
    (last'.op = "merge" /\ last'.conflicts # {} /\ last'.known) =>
        /\ commits' # commits => last'.staged = last'.count
        /\ ~(last'.conflicts \subseteq last'.listed) =>
              /\ last'.ret = "unresolved"
              /\ last'.staged = last'.count
              /\ commits' = commits /\ parents' = parents /\ head' = head

\* C20: every step of merge_with_resolutions is as stated
C20_CommitAfterResolutions == [][C20_CommitStep]_vars

\* the one listed resolution was applied and staged, the conflicting file is
\* another one, and the commit of the merge was refused
C20_Witness ==
    /\ last.op = "merge" /\ last.known /\ last.ret = "unresolved"
    /\ last.conflicts # {} /\ ~(last.conflicts \subseteq last.listed)
    /\ last.count = 1 /\ last.staged = 1
    /\ merging # NoMerge

C21_CleanupStep ==
    last'.op = "cleanup" =>
        /\ last'.ok
        /\ registered' = {}
        /\ \A p \in Paths : dirs'[p] = NoDir
        /\ \A b \in BranchNames : branches'[b] = 0
        /\ (/\ registered = {}
            /\ \A p \in Paths : dirs[p] = NoDir
            /\ \A b \in BranchNames : branches[b] = 0)
              => UNCHANGED <<registered, dirs, container, branches, commits, head, wt>>
        /\ last.op = "cleanup"
              => UNCHANGED <<registered, dirs, container, branches, commits, head, wt>>

\* C21: every step of cleanup_all_story_worktrees is as stated
C21_CleanupLeavesNothing == [][C21_CleanupStep]_vars

\* C22: abort_merge returns Ok both when it aborts a merge in progress and
\* when no merge is in progress; in the latter case the repository is left
\* unchanged, so abort_merge is idempotent: after it no merge is in progress.
C22_AbortStep ==
    last'.op = "abort" =>
        /\ last'.ok
        /\ merging' = NoMerge
        /\ merging = NoMerge =>
              UNCHANGED <<commits, parents, head, wt, stash, branches, dirs, registered>>

\* C22: every step of abort_merge is as stated
C22_AbortIdempotent == [][C22_AbortStep]_vars

\* abort_merge was called with no merge in progress and a modified working copy
C22_Witness ==
    /\ last.op = "abort" /\ ~last.merging /\ last.ok
    /\ merging = NoMerge /\ wt # HeadTree

\* C23: each process goes through one terminal transition: its entry is
\* inserted once by spawn_agent, removed once by one of wait_agent (natural
\* exit), kill_agent or shutdown, removing an absent id is a no-op and not an
\* error, and an id that has been removed is never registered again.
C23_OneTerminalStep ==
    /\ \A id \in Ids :
          /\ (id \in registry' /\ id \notin registry)
                => (id \notin returned /\ removedBy[id] = Free)
          /\ (id \in registry /\ id \notin registry')
                => /\ removedBy[id] = Free
                   /\ removedBy'[id] \in Tasks \cup {ShutdownOwner}
                   /\ \A t \in Tasks :
                         removedBy'[id] = t
                            => /\ arg[t] = id
                               /\ op[t] \in {"wait", "kill"}
                               /\ op[t] = "wait" => proc[id] = "exited"
          /\ removedBy[id] # Free
                => (removedBy'[id] = removedBy[id] /\ id \notin registry')
    /\ \A t \in Tasks :
          ((pc[t] = "w_check" \/ pc[t] = "k_lock") /\ pc'[t] # pc[t]
              /\ arg[t] \notin registry)
                => (res'[t].ret = "ok" /\ registry' = registry /\ removedBy' = removedBy)

\* C23: every step keeps to one insertion and one removal per process
C23_OneTerminalTransition == [][C23_OneTerminalStep]_vars

\* the entry of a process was removed by one call, and a later call on the
\* same id found it absent and returned without an error
C23_Witness ==
    \E id \in Ids, t \in Tasks :
        /\ removedBy[id] \in Tasks /\ removedBy[id] # t
        /\ id \notin registry
        /\ arg[t] = id /\ pc[t] = "done" /\ res[t].ret = "ok"

\* C24: whenever kill_agent(id) finds id registered, the entry of id has been
\* removed by the time it returns, in every outcome: exit after SIGTERM,
\* forced kill after the grace window, and an error while polling.
C24_KillRemovesEntry ==
    \A t \in Tasks :
        (op[t] = "kill" /\ pc[t] \in {"k_ret", "done"} /\ "TERM" \in sent[t])
            => /\ arg[t] \notin registry
               /\ removedBy[arg[t]] = t
               /\ res[t].message \in {"SIGTERM", "SIGKILL", "wait error"}

\* kill_agent found the id, polling the process failed, and it has returned
C24_Witness ==
    \E t \in Tasks :
        /\ op[t] = "kill" /\ pc[t] = "done" /\ "TERM" \in sent[t]
        /\ res[t].message = "wait error" /\ ~res[t].success
        /\ arg[t] \notin registry /\ proc[arg[t]] = "running"

\* C25: kill_agent sends the graceful signal to the process group first and
\* the forceful one only if the process is still alive once the grace window
\* has elapsed; the forceful signal is never sent before the graceful one nor
\* after the process was observed exited, and the message returned tells
\* which of the two tiers ended the process.
C25_TwoTierStep ==
    \A t \in Tasks :
        /\ ("KILL" \in sent'[t] /\ "KILL" \notin sent[t])
              => /\ "TERM" \in sent[t]
                 /\ sigs[arg[t]] # <<>> /\ sigs[arg[t]][Len(sigs[arg[t]])] = "TERM"
                 /\ elapsed[t] >= GracePolls
                 /\ proc[arg[t]] = "running"
                 /\ res'[t] = KillAgentResult(TRUE, "SIGKILL")
        /\ (op[t] = "kill" /\ pc[t] = "k_poll" /\ pc'[t] = "k_ret" /\ res'[t].success)
              => /\ res'[t].message = "SIGKILL" <=> "KILL" \in sent'[t]
                 /\ res'[t].message = "SIGTERM" <=> sent'[t] = {"TERM"}
                 /\ res'[t].message = "SIGTERM" => proc[arg[t]] = "exited"

\* C25: every step of kill_agent keeps to the two tiers
C25_GracefulThenForceful == [][C25_TwoTierStep]_vars

\* a process ignored SIGTERM for the whole grace window and was killed by force
C25_Witness ==
    \E t \in Tasks :
        /\ op[t] = "kill" /\ pc[t] = "done"
        /\ res[t] = KillAgentResult(TRUE, "SIGKILL")
        /\ sigs[arg[t]] = <<"TERM", "KILL">>
        /\ elapsed[t] = GracePolls

\* C26: wait_agent(id) terminates: once the process has exited, or its entry
\* has been removed by a kill or by shutdown, the call returns; on natural
\* exit it removes the entry and returns the process's own exit code and
\* success flag, and the agent-exit notification it emits has the same values.
C26_NaturalExitReported ==
    \A t \in Tasks :
        (op[t] = "wait" /\ pc[t] = "done" /\ arg[t] \in Ids /\ removedBy[arg[t]] = t)
            => /\ proc[arg[t]] = "exited"
               /\ arg[t] \notin registry
               /\ res[t].ret = "ok"
               /\ res[t].exit_code =
                     (IF status[arg[t]] \in {0, 1} THEN status[arg[t]] ELSE NoCode)
               /\ res[t].success = (status[arg[t]] = 0)
               /\ \E k \in DOMAIN log[arg[t]] :
                     log[arg[t]][k] = [event |-> "agent-exit",
                                       exit_code |-> res[t].exit_code,
                                       success |-> res[t].success]

C26_WaitReturns ==
    /\ []C26_NaturalExitReported
    /\ \A t \in Tasks :
          (/\ op[t] = "wait" /\ pc[t] # "idle"
           /\ (ProcOf(t) = "exited" \/ arg[t] \notin registry))
             ~> (pc[t] = "done")

\* wait_agent has removed the entry of a process that exited with a failure code
C26_Witness ==
    \E t \in Tasks :
        /\ op[t] = "wait" /\ pc[t] = "done" /\ arg[t] \in Ids
        /\ removedBy[arg[t]] = t
        /\ status[arg[t]] = 1
        /\ res[t] = WaitAgentResult(1, FALSE)

\* C27: if spawn_agent fails to launch the executable it returns an error at
\* once, inserts no entry in the registry, starts no reader and emits no
\* notification, so the registry is the same as before the call.
C27_FailedSpawnStep ==
    /\ \A id \in Ids :
          (proc[id] = "none" /\ proc'[id] = "failed")
              => (registry' = registry /\ returned' = returned /\ log' = log)
    /\ \A id \in Ids :
          proc[id] = "failed"
              => /\ proc'[id] = "failed"
                 /\ id \notin registry' /\ id \notin returned'
                 /\ \A s \in Streams : reader'[id][s] = "none"
                 /\ log'[id] = <<>> /\ sigs'[id] = <<>>

\* C27: every step leaves a failed spawn without entry, reader and notification
C27_FailedSpawnLeavesNothing == [][C27_FailedSpawnStep]_vars

\* the one spawn_agent call failed and a later call has run to its end
C27_Witness ==
    \E id \in Ids, t \in Tasks :
        /\ proc[id] = "failed" /\ id \notin registry /\ id \notin returned
        /\ pc[t] = "done"

\* C28: each output reader loop terminates when its stream reaches
\* end-of-stream, and it also stops as soon as emitting a notification fails
\* because the subscriber is gone: it never keeps reading and emitting after
\* the sink has become unreachable.
C28_ReaderStopsStep ==
    \A id \in Ids, s \in Streams :
        /\ (reader[id][s] # "done" /\ reader'[id][s] = "done")
              => (reader[id][s] = "unheard" \/ (pipe[id][s] = <<>> /\ proc[id] = "exited"))
        /\ reader[id][s] = "unheard"
              => /\ Len(pipe'[id][s]) >= Len(pipe[id][s])
                 /\ SubSeq(pipe'[id][s], 1, Len(pipe[id][s])) = pipe[id][s]

\* C28: no step of a reader thread reads on after a failed emit
C28_ReaderStops == [][C28_ReaderStopsStep]_vars

\* C29: every line the process writes on standard output or standard error
\* yields exactly one agent-output notification with the process id and the
\* right stream kind, in the order written on that stream; a line with
\* invalid byte sequences yields a notification with replacement characters
\* and is not dropped.
C29_LineStep ==
    \A id \in Ids, s \in Streams :
        (/\ pipe[id][s] # <<>> /\ pipe'[id][s] = Tail(pipe[id][s])
         /\ reader'[id][s] = "reading")
            => /\ Len(log'[id]) = Len(log[id]) + 1
               /\ SubSeq(log'[id], 1, Len(log[id])) = log[id]
               /\ LET ev == log'[id][Len(log'[id])]
                  IN  /\ ev.event = "agent-output" /\ ev.stream = s
                      /\ ValidLine(Head(pipe[id][s])) => ev.content = Head(pipe[id][s])

\* C29: every line a reader takes from its pipe is notified once
C29_OneNotificationPerLine == [][C29_LineStep]_vars

\* C30: create_story_snapshot leaves the main working copy exactly as it was
\* before the call (same tracked modifications and untracked files), and the
\* snapshot it returns has kind 'stash' if and only if the working copy had
\* uncommitted changes at capture time, otherwise kind 'commit' with the
\* current HEAD commit as reference.
C30_CreateStep ==
    last'.op = "create" =>
        /\ wt' = wt /\ head' = head /\ commits' = commits
        /\ last'.ok =>
              LET sn == snaps'[Len(snaps')]
              IN  /\ Len(snaps') = Len(snaps) + 1
                  /\ sn.type = "stash" <=> wt # commits[head]
                  /\ sn.type = "commit" <=> wt = commits[head]
                  /\ sn.type = "commit" => (sn.ref = head /\ stash' = stash)
                  /\ sn.type = "stash"
                        => /\ Len(stash') = Len(stash) + 1
                           /\ stash'[1].tree = wt /\ stash'[1].message = sn.ref
        /\ ~last'.ok => (snaps' = snaps /\ stash' = stash)

\* C30: every step of create_story_snapshot is as stated
C30_SnapshotLeavesWorkingCopy == [][C30_CreateStep]_vars

\* a stash-kind snapshot was taken of a tracked modification and an untracked file
C30_Witness ==
    /\ last.op = "create" /\ last.ok
    /\ snaps # <<>> /\ snaps[Len(snaps)].type = "stash"
    /\ wt[1] \notin {Absent, commits[head][1]}
    /\ commits[head][2] = Absent /\ wt[2] # Absent
    /\ stash # <<>> /\ stash[1].tree = wt

\* C31: every stash-kind checkpoint gets a label distinct from the label of
\* every other live snapshot, an earlier checkpoint of the same story id
\* included, so at any time at most one stash of the stash list matches a
\* given snapshot reference.
C31_LabelsUnique ==
    \A k \in DOMAIN snaps :
        (snaps[k].type = "stash" /\ ~snaps[k].used)
            => /\ \A j \in DOMAIN snaps :
                     (j # k /\ snaps[j].type = "stash" /\ ~snaps[j].used)
                        => snaps[j].ref # snaps[k].ref
               /\ Cardinality({i \in DOMAIN stash :
                                 Contains(StashLine(stash[i]), snaps[k].ref)}) <= 1

\* C38: rollback_story_changes and discard_story_snapshot called with the
\* stash snapshot of one checkpoint pop or drop only the stash made by that
\* checkpoint, never the stash of a different story whose label contains the
\* reference as a substring, nor another stash of the same story.
C38_OwnStashStep ==
    last'.op \in {"rollback", "discard"} =>
        \A i \in DOMAIN stash :
            (\A j \in DOMAIN stash' : stash'[j].snap # stash[i].snap)
                => stash[i].snap = last'.snap

\* C38: every rollback and discard step consumes only its own stash
C38_OnlyOwnStash == [][C38_OwnStashStep]_vars


\* C32: a call of merge_with_resolutions that started the merge (no merge was
\* in progress, and git merge stopped with conflicts) and returns an error
\* leaves no merge in progress behind
C32_AbortedStep ==
    (/\ last'.op = "merge"
     /\ last'.ret # "ok"
     /\ merging = NoMerge
     /\ last'.conflicts # {})
        => merging' = NoMerge

\* C32: every failed merge with resolutions has aborted the merge it started
C32_ErrorAborts == [][C32_AbortedStep]_vars


\* C33: a finalize_story_worktree that found changes in the isolated working
\* copy and whose git commit exited non-zero (the step made no commit at all)
\* returns an error instead of going on to the merge and the removal
C33_FailureStep ==
    (/\ last'.op = "finalize"
     /\ last'.success
     /\ dirs[last'.path] # NoDir
     /\ branches[last'.branch] # 0
     /\ dirs[last'.path] # commits[branches[last'.branch]]
     /\ last # last'
     /\ commits' = commits)
        => last'.ret = "err"

\* C33: every finalize step whose git commit failed returns an error
C33_FailureReturned == [][C33_FailureStep]_vars


\* C34: when finalize_story_worktree is called for a worktree that exists and
\* returns Ok, the isolated directory is gone and the story branch is deleted;
\* with success = false nothing is committed or merged and the main line is as
\* it was
C34_OkStep ==
    (/\ last'.op = "finalize"
     /\ last'.ret = "ok"
     /\ last # last'
     /\ dirs[last'.path] # NoDir) =>
        /\ dirs'[last'.path] = NoDir
        /\ branches'[last'.branch] = 0
        /\ ~last'.success =>
              /\ commits' = commits
              /\ parents' = parents
              /\ head' = head
              /\ wt' = wt

\* C34: every finalize step that returns Ok leaves no directory and no branch
C34_OkCleansUp == [][C34_OkStep]_vars


\* C39: for every terminal id at most one terminal-exit notification is
\* emitted, whatever the order of kill_terminal and the reader thread's
\* cleanup
C39_OneExitEvent == \A t \in TermIds : term[t].exits <= 1

\* kill_terminal was called for a terminal whose reader thread ended as well,
\* and exactly one of the two emitted terminal-exit
C39_Witness ==
    /\ tlast.op = "kill"
    /\ term[tlast.id].reader = "done"
    /\ term[tlast.id].exits = 1

\* C40: every terminal whose shell has exited is eventually out of
\* PTY_TERMINALS with a terminal-exit notification emitted for it
C40_ExitedRemoved ==
    \A t \in TermIds :
        (term[t].shell = "exited") ~> (t \notin terminals /\ term[t].exits >= 1)


\* C35: finalize_story_worktree merges the story branch into the base
\* reference prepare_story_worktree rooted it at: after a finalize that
\* merged, the main copy is on that base reference
C35_MergedIntoBaseStep ==
    (/\ last'.op = "finalize"
     /\ last # last'
     /\ last'.merge \in {"ff", "clean"})
        => refs'.cur = refs.rooted[last'.branch]

\* C35: every finalize step that merges does so on the branch's base
C35_MergedIntoBase == [][C35_MergedIntoBaseStep]_vars

\* C36: prepare_story_worktree on a repository without commits returns the
\* "No commits" error and leaves no worktree directory and no story branch
C36_NoCommitsStep ==
    (last'.op = "prepare" /\ head = 0 /\ last # last') =>
        /\ ~last'.ok
        /\ last'.error = NoCommitsError
        /\ \A p \in Paths : dirs'[p] = NoDir
        /\ \A b \in BranchNames : branches'[b] = 0
        /\ registered' = {}
        /\ records' = {}

\* C36: every prepare step on a repository without commits fails cleanly
C36_NoCommitsError == [][C36_NoCommitsStep]_vars

\* prepare_story_worktree was called for a story with a usable name on a
\* repository that has files and no commit, and returned the error
C36_Witness ==
    /\ head = 0
    /\ last.op = "prepare"
    /\ last.path # <<>>
    /\ last.error = NoCommitsError
    /\ container


\* C37: while a kill_agent call that found its entry is between lookup and
\* removal it owns the registry lock and the entry is still there
C37_LockHeld ==
    \A t \in Tasks : pc[t] = "k_poll" => lock = t /\ arg[t] \in registry

\* C37: in that window no other call looks at the registry or takes the
\* lock, the registry changes only by this call's removal, and the call
\* leaves the window only with the entry removed
C37_WindowStep ==
    \A t \in Tasks :
        pc[t] = "k_poll" =>
            /\ \/ registry' = registry
               \/ /\ pc'[t] = "k_ret"
                  /\ registry' = registry \ {arg[t]}
                  /\ removedBy'[arg[t]] = t
            /\ pc'[t] # "k_poll" => arg[t] \notin registry'
            /\ \A u \in Tasks \ {t} :
                  /\ pc[u] \notin {"w_check", "k_poll"}
                  /\ pc[u] \in {"w_lock", "k_lock"} => pc'[u] = pc[u]
            /\ shut' = shut

\* C37: a wait_agent call for an id whose entry a kill_agent call removed
\* returns the disappearance outcome
C37_WaitSeesDisappearance ==
    \A t \in Tasks, u \in Tasks :
        (/\ op[t] = "kill" /\ op[u] = "wait"
         /\ arg[t] \in Ids /\ arg[u] = arg[t]
         /\ removedBy[arg[t]] = t
         /\ pc[u] \in {"w_emit", "done"})
            => res[u] = WaitMissing

\* C37: kill_agent holds the lock from lookup to removal, and a concurrent
\* wait_agent for the same id reports the disappearance, never an exit status
C37_KillExcludesWait ==
    /\ [](C37_LockHeld /\ C37_WaitSeesDisappearance)
    /\ [][C37_WindowStep]_vars

\* a wait_agent call that started first and found the process running, a
\* kill_agent call for the same id that removed the entry, and the wait then
\* returned the disappearance outcome
C37_Witness ==
    /\ op[1] = "wait" /\ op[2] = "kill"
    /\ arg[1] \in Ids /\ arg[2] = arg[1]
    /\ removedBy[arg[1]] = 2
    /\ pc[1] = "done"
    /\ res[1] = WaitMissing

====
